---- MODULE Spec2Model ----
(***************************************************************************)
(* Timetable builders of lessons/views.py (timetable_builder and           *)
(* remedial_timetable_builder) over the Timetable table of                 *)
(* lessons/models.py, with the joint-lesson configuration tables           *)
(* JointSubject and JointClassGroupSet.                                    *)
(*                                                                         *)
(* Spec and SpecAdmin take a view through a POST in one step: the step     *)
(* records the request (req) and the response (resp).  The browser may     *)
(* send an accepted form once more, or leave the page.  SpecSteps takes    *)
(* the save of timetable_builder through its ORM statements one at a       *)
(* time, beside a reader of timetable_master.                              *)
(* SpecRace runs two saves of timetable_builder at once.  SpecRecords and  *)
(* SpecStats add the LessonRecord table (generate_remedial_week_lessons,   *)
(* remedial_teacher_details, remedial_stats); SpecWeeks adds the           *)
(* NormalLessonSlot and NormalLessonAttendance tables                      *)
(* (generate_week_lessons).                                                *)
(* SpecNormalStats reads the attendance (deputy_normal_stats), SpecLessons *)
(* adds add_lesson_teacher.  SpecLibrary and SpecLoans cover the loans of   *)
(* library/views.py, request by request and statement by statement, and    *)
(* SpecPayments the fee payments of student_payments.                      *)
(***************************************************************************)
EXTENDS Integers, Sequences, FiniteSets, TLC

\* ---------------------------------------------------------------- bounds
NumClassGroups == 2   \* rows of ClassGroup: ids 1..NumClassGroups
NumSubjects    == 2   \* rows of Subject: ids 1..NumSubjects
NumTeachers    == 1   \* rows of Teacher: ids 1..NumTeachers
MaxCells       == 2   \* filled cells of one submitted form
MaxSharedRows  == 1   \* rows the admin form attaches to several class groups
MaxRaceCells   == 1   \* filled cells of a form saved at the same time as another
NumWeeks       == 1   \* rows of Week: ids 1..NumWeeks
MaxRecordRows  == 2   \* Timetable rows when remedial LessonRecords are generated
MaxAttendance  == 2   \* NormalLessonAttendance rows before a week is generated
NumBooks       == 2   \* rows of Book: ids 1..NumBooks
NumStudents    == 2   \* rows of Student: ids 1..NumStudents
MaxBorrowRecords == 3 \* rows of BorrowRecord
MaxPayments    == 4   \* rows of StudentPayment

\* `for idx in (1, 2, 3)`: parallel offerings of one visual cell
NumSubIndex == 3

ClassGroupIds == 1..NumClassGroups
SubjectIds    == 1..NumSubjects
TeacherIds    == 1..NumTeachers

\* ------------------------------------------------- the two fixed structures
\* Times are written HHMM (time(8, 40) is 840).  The model keeps one day and
\* the first lesson of the normal structure, and of the remedial structure
\* the Saturday slot 08:00-09:00, which the remedial grid also offers on
\* Monday (the grid is days x slots).
FixedTimetableStructure ==
    [days |-> <<"Mon">>, slots |-> << <<800, 840>> >>]

FixedRemedialStructure ==
    [days |-> <<"Mon">>, slots |-> << <<800, 900>> >>]

StartTimes(S) == {S.slots[i][1] : i \in 1..Len(S.slots)}
DaySet(S)     == {S.days[i] : i \in 1..Len(S.days)}

\* ------------------------------------------------------- strings as char lists
Digits == {"0", "1", "2", "3", "4", "5", "6", "7", "8", "9"}
DigitSeq == <<"0", "1", "2", "3", "4", "5", "6", "7", "8", "9">>
DigitVal(c) == (CHOOSE i \in 1..10 : DigitSeq[i] = c) - 1

RECURSIVE LStrip(_)
LStrip(s) == IF s # <<>> /\ Head(s) = " " THEN LStrip(Tail(s)) ELSE s
RECURSIVE RStrip(_)
RStrip(s) == IF s # <<>> /\ s[Len(s)] = " "
             THEN RStrip(SubSeq(s, 1, Len(s) - 1)) ELSE s
\* str.strip()
Strip(s) == RStrip(LStrip(s))

\* the unsigned part of an int() literal
Unsigned(s) == LET t == Strip(s)
               IN IF t # <<>> /\ Head(t) \in {"+", "-"} THEN Tail(t) ELSE t
\* int(s) does not raise ValueError
IsIntLiteral(s) == LET u == Unsigned(s)
                   IN u # <<>> /\ \A i \in 1..Len(u) : u[i] \in Digits
RECURSIVE DigitsValue(_)
DigitsValue(u) == IF u = <<>> THEN 0
                  ELSE 10 * DigitsValue(SubSeq(u, 1, Len(u) - 1)) + DigitVal(u[Len(u)])
\* int(s)
PyInt(s) == LET t == Strip(s)
            IN IF t # <<>> /\ Head(t) = "-" THEN 0 - DigitsValue(Unsigned(s))
               ELSE DigitsValue(Unsigned(s))

RECURSIVE NatStr(_)
NatStr(n) == IF n < 10 THEN <<DigitSeq[n + 1]>>
             ELSE NatStr(n \div 10) \o <<DigitSeq[(n % 10) + 1]>>
\* f"{n}"
IntStr(n) == IF n < 0 THEN <<"-">> \o NatStr(0 - n) ELSE NatStr(n)

\* f"{subj_id}-{teacher_id}"
PairKey(subj, teacher) == IntStr(subj) \o <<"-">> \o IntStr(teacher)

\* position of the first "-" of val, 0 when there is none
FirstDash(val) ==
    IF \E i \in 1..Len(val) : val[i] = "-"
    THEN CHOOSE i \in 1..Len(val) :
             val[i] = "-" /\ \A j \in 1..(i - 1) : val[j] # "-"
    ELSE 0

\* val.split("-", 1) followed by the two int() calls; ok is FALSE where the
\* code lands in `except (ValueError, TypeError)`
DecodeCell(val) ==
    LET i == FirstDash(val)
        l == SubSeq(val, 1, i - 1)
        r == SubSeq(val, i + 1, Len(val))
    IN IF i = 0 \/ ~IsIntLiteral(l) \/ ~IsIntLiteral(r)
       THEN [ok |-> FALSE, subj |-> 0, teacher |-> 0]
       ELSE [ok |-> TRUE, subj |-> PyInt(l), teacher |-> PyInt(r)]

\* ------------------------------------------------------------ the form scan
RECURSIVE SortedSeq(_)
\* a queryset of ClassGroup rows, in primary-key order
SortedSeq(S) == IF S = {} THEN <<>>
                ELSE LET m == CHOOSE x \in S : \A y \in S : x <= y
                     IN <<m>> \o SortedSeq(S \ {m})

\* The field names in the order of the nested loops
\*   for cg in class_groups: for day in days: for (st, et) in slots:
\*     for idx in (1, 2, 3)
\* A field name cell_{cg.id}_{day}_{st_key}_{et_key}_{idx} is kept as the
\* tuple <<cg, day, st, et, idx>> of the values it is built from.
FieldNames(S, cgs) ==
    LET cgSeq == SortedSeq(cgs)
        nd == Len(S.days)
        ns == Len(S.slots)
        n  == Len(cgSeq) * nd * ns * NumSubIndex
    IN [i \in 1..n |->
          LET j == i - 1
              sl == S.slots[((j \div NumSubIndex) % ns) + 1]
          IN << cgSeq[(j \div (NumSubIndex * ns * nd)) + 1],
                S.days[((j \div (NumSubIndex * ns)) % nd) + 1],
                sl[1], sl[2], (j % NumSubIndex) + 1 >>]

\* request.POST.get(field_name, "").strip()
CellValue(post, name) ==
    IF name \in DOMAIN post THEN Strip(post[name]) ELSE <<>>

\* ParseError looking only at the last non-empty cell of the scan.
ParseErrorLastCell(S, cgs, post) ==
    LET names == FieldNames(S, cgs)
        filled == {i \in DOMAIN names : CellValue(post, names[i]) # <<>>}
    IN \E i \in filled :
           /\ \A j \in filled : j <= i
           /\ ~DecodeCell(CellValue(post, names[i])).ok

\* Some non-empty cell of the selected class groups does not decode.
ParseError(S, cgs, post) ==
    LET names == FieldNames(S, cgs)
    IN \E i \in DOMAIN names :
           LET val == CellValue(post, names[i])
           IN val # <<>> /\ ~DecodeCell(val).ok

RECURSIVE DecodedFrom(_, _, _)
DecodedFrom(names, post, i) ==
    IF i > Len(names) THEN <<>>
    ELSE LET val == CellValue(post, names[i])
             d == DecodeCell(val)
         IN IF val = <<>> \/ ~d.ok THEN DecodedFrom(names, post, i + 1)
            ELSE << [cg |-> names[i][1], day |-> names[i][2], st |-> names[i][3],
                     et |-> names[i][4], idx |-> names[i][5],
                     subj |-> d.subj, teacher |-> d.teacher] >>
                 \o DecodedFrom(names, post, i + 1)

\* The decoded, non-empty cells in scan order.
DecodedCells(S, cgs, post) == DecodedFrom(FieldNames(S, cgs), post, 1)

\* block_subjects[(teacher_id, day, st, et)]
BlockSubjects(cells, teacher, day, st, et) ==
    {cells[i].subj : i \in {j \in DOMAIN cells :
        /\ cells[j].teacher = teacher /\ cells[j].day = day
        /\ cells[j].st = st /\ cells[j].et = et}}

\* block_classes[(teacher_id, day, st, et, subj_id)]
BlockClasses(cells, teacher, day, st, et, subj) ==
    {cells[i].cg : i \in {j \in DOMAIN cells :
        /\ cells[j].teacher = teacher /\ cells[j].day = day
        /\ cells[j].st = st /\ cells[j].et = et /\ cells[j].subj = subj}}

\* SlotConflict with the subjects of a slot collected per class group.
SlotConflictPerClass(cells) ==
    \E i, j \in DOMAIN cells :
        /\ cells[i].teacher = cells[j].teacher /\ cells[i].day = cells[j].day
        /\ cells[i].st = cells[j].st /\ cells[i].et = cells[j].et
        /\ cells[i].cg = cells[j].cg
        /\ cells[i].subj # cells[j].subj

\* `if len(subj_ids) > 1` for some key of block_subjects
SlotConflict(cells) ==
    \E i \in DOMAIN cells :
        Cardinality(BlockSubjects(cells, cells[i].teacher, cells[i].day,
                                  cells[i].st, cells[i].et)) > 1

\* ------------------------------------------------------ joint configuration
\* JointSubjectIds without the filter on active.
JointSubjectIdsAnyRecord(js) == DOMAIN js

\* JointSubject.objects.filter(active=True).values_list("subject_id")
\* js: the JointSubject table, subject id -> active, for the subjects that
\* have a record (subject is a OneToOneField).
JointSubjectIds(js) == {s \in DOMAIN js : js[s]}

RECURSIVE ClassToTagFrom(_, _, _)
ClassToTagFrom(sets, i, tags) ==
    IF i > Len(sets) THEN tags
    ELSE IF ~sets[i].active THEN ClassToTagFrom(sets, i + 1, tags)
    ELSE ClassToTagFrom(sets, i + 1,
            [c \in (DOMAIN tags) \cup sets[i].class_groups |->
                IF c \in sets[i].class_groups THEN sets[i].name ELSE tags[c]])

\* ClassToTag without the filter on active.
ClassToTagAnySet(sets) ==
    ClassToTagFrom([i \in DOMAIN sets |-> [sets[i] EXCEPT !.active = TRUE]], 1, << >>)

\* class_to_tag: each active set overwrites the tag of its members
ClassToTag(sets) == ClassToTagFrom(sets, 1, << >>)

NoTag == "None"
\* {class_to_tag.get(cid) for cid in class_ids}
TagsOf(tags, class_ids) ==
    {IF c \in DOMAIN tags THEN tags[c] ELSE NoTag : c \in class_ids}

MsgInvalid        == "Invalid subject/teacher selection received."
MsgConflict       == "A teacher cannot be assigned different subjects in the same time slot."
MsgNotJointSubj   == "Cannot assign this teacher to multiple classes unless the subject is a joint subject."
MsgNotJointGroup  == "These classes are not configured as a single joint class group."
MsgUnknownAction  == "Unknown action; timetable was not saved."
NoError           == "None"

RECURSIVE JointErrorFrom(_, _, _, _)
\* The loop over block_classes.items(): the blocks come in the order of their
\* first cell, and the first failing block sets the message.
JointErrorFrom(cells, i, jsIds, tags) ==
    IF i > Len(cells) THEN NoError
    ELSE LET c == cells[i]
             class_ids == BlockClasses(cells, c.teacher, c.day, c.st, c.et, c.subj)
             ts == TagsOf(tags, class_ids)
         IN IF Cardinality(class_ids) <= 1
            THEN JointErrorFrom(cells, i + 1, jsIds, tags)
            ELSE IF c.subj \notin jsIds THEN MsgNotJointSubj
            ELSE IF Cardinality(ts) # 1 \/ NoTag \in ts THEN MsgNotJointGroup
            ELSE JointErrorFrom(cells, i + 1, jsIds, tags)

\* error_message at `if error_message:`, after the three validation stages
ValidationError(S, cgs, post, js, sets) ==
    LET cells == DecodedCells(S, cgs, post)
    IN IF ParseError(S, cgs, post) THEN MsgInvalid
       ELSE IF SlotConflict(cells) THEN MsgConflict
       ELSE JointErrorFrom(cells, 1, JointSubjectIds(js), ClassToTag(sets))

\* -------------------------------------------------------------- persistence
\* A Timetable row with its class_groups (the many-to-many link rows):
\*   [id, subject_fk_id, teacher_id, day, start_time, end_time, class_groups]

\* DeleteSelected with the end time compared against the start times.
DeleteSelectedByEndTime(rows, S, cgs) ==
    {r \in rows : ~(/\ r.class_groups \cap cgs # {}
                    /\ r.day \in DaySet(S)
                    /\ r.end_time \in StartTimes(S))}

\* Timetable.objects.filter(class_groups=cg, day__in=days,
\*     start_time__in=[st for (st, _et) in slots]).delete(), for cg in class_groups
DeleteSelected(rows, S, cgs) ==
    {r \in rows : ~(/\ r.class_groups \cap cgs # {}
                    /\ r.day \in DaySet(S)
                    /\ r.start_time \in StartTimes(S))}

\* LessonRecord.timetable is a ForeignKey with on_delete=CASCADE: the delete
\* of Timetable rows takes the LessonRecords of those rows along.
CascadeDelete(records, rows, S, cgs) ==
    LET deleted == {r.id : r \in rows \ DeleteSelected(rows, S, cgs)}
    IN {l \in records : l.timetable \notin deleted}

\* The primary key of a new row.  The model takes the smallest free key: a
\* deleted row takes every reference to it along (on_delete=CASCADE), so a
\* key is only ever compared with keys of rows that exist.
FreshId(rows) ==
    CHOOSE n \in 1..(Cardinality(rows) + 1) : \A r \in rows : r.id # n

\* The INSERT of Timetable.objects.create(subject_fk_id=.., teacher_id=..)
\* fails with IntegrityError unless both foreign keys name existing rows.
ForeignKeysExist(subj, teacher) ==
    subj \in SubjectIds /\ teacher \in TeacherIds

RECURSIVE CreateFromEveryCell(_, _, _, _)
\* CreateFrom without the test `if key in created_keys`.
CreateFromEveryCell(cells, i, rows, created_keys) ==
    IF i > Len(cells) THEN [rows |-> rows, raised |-> FALSE]
    ELSE LET c == cells[i]
         IN IF ~ForeignKeysExist(c.subj, c.teacher)
            THEN [rows |-> rows, raised |-> TRUE]
            ELSE CreateFromEveryCell(cells, i + 1,
                    rows \cup {[id |-> FreshId(rows),
                                subject_fk_id |-> c.subj,
                                teacher_id |-> c.teacher,
                                day |-> c.day,
                                start_time |-> c.st,
                                end_time |-> c.et,
                                class_groups |-> {c.cg}]},
                    created_keys)

RECURSIVE CreateFrom(_, _, _, _)
\* The second scan of the form: one row per new
\* (cg.id, day, st, et, subj_id, teacher_id), each statement committed on its
\* own; an IntegrityError ends the request where it is raised.
CreateFrom(cells, i, rows, created_keys) ==
    IF i > Len(cells) THEN [rows |-> rows, raised |-> FALSE]
    ELSE LET c == cells[i]
             key == <<c.cg, c.day, c.st, c.et, c.subj, c.teacher>>
         IN IF key \in created_keys
            THEN CreateFrom(cells, i + 1, rows, created_keys)
            ELSE IF ~ForeignKeysExist(c.subj, c.teacher)
            THEN [rows |-> rows, raised |-> TRUE]
            ELSE CreateFrom(cells, i + 1,
                    rows \cup {[id |-> FreshId(rows),
                                subject_fk_id |-> c.subj,
                                teacher_id |-> c.teacher,
                                day |-> c.day,
                                start_time |-> c.st,
                                end_time |-> c.et,
                                class_groups |-> {c.cg}]},
                    created_keys \cup {key})

\* The else branch of `if error_message:`: delete, then recreate.
ReplaceRows(rows, S, cgs, post) ==
    CreateFrom(DecodedCells(S, cgs, post), 1, DeleteSelected(rows, S, cgs), {})

\* ------------------------------------------------------------------- render
RECURSIVE RowsById(_)
\* the rows of a queryset in primary-key order
RowsById(rows) ==
    IF rows = {} THEN <<>>
    ELSE LET r == CHOOSE x \in rows : \A y \in rows : x.id <= y.id
         IN <<r>> \o RowsById(rows \ {r})

RECURSIVE Repeat(_, _)
Repeat(x, n) == IF n = 0 THEN <<>> ELSE <<x>> \o Repeat(x, n - 1)

RECURSIVE JoinedFrom(_, _, _)
JoinedFrom(rowSeq, i, cgs) ==
    IF i > Len(rowSeq) THEN <<>>
    ELSE Repeat(rowSeq[i], Cardinality(rowSeq[i].class_groups \cap cgs))
         \o JoinedFrom(rowSeq, i + 1, cgs)

\* Timetable.objects.filter(class_groups__in=class_groups, day__in=days,
\*     start_time__in=...): the join yields a row once per selected class
\* group it is attached to.
SelectedTimetables(rows, S, cgs) ==
    JoinedFrom(RowsById({r \in rows : /\ r.class_groups \cap cgs # {}
                                      /\ r.day \in DaySet(S)
                                      /\ r.start_time \in StartTimes(S)}), 1, cgs)

\* PlaceValue taking the last free sub-index.
PlaceValueLastFree(current, cg, r, value) ==
    LET free == {idx \in 1..NumSubIndex :
                    <<cg, r.day, r.start_time, r.end_time, idx>> \notin DOMAIN current}
    IN IF free = {} THEN current
       ELSE LET idx == CHOOSE x \in free : \A y \in free : x >= y
            IN current @@ (<<cg, r.day, r.start_time, r.end_time, idx>> :> value)

\* "Place into the first free slot 1..3": the map with the value placed, or
\* the map itself when all three are taken.
PlaceValue(current, cg, r, value) ==
    LET free == {idx \in 1..NumSubIndex :
                    <<cg, r.day, r.start_time, r.end_time, idx>> \notin DOMAIN current}
    IN IF free = {} THEN current
       ELSE LET idx == CHOOSE x \in free : \A y \in free : x <= y
            IN current @@ (<<cg, r.day, r.start_time, r.end_time, idx>> :> value)

RECURSIVE PlaceForClasses(_, _, _, _)
\* for cg in tt.class_groups.all(): if cg.id not in selected_class_ids: continue
PlaceForClasses(current, cgSeq, r, cgs) ==
    IF cgSeq = <<>> THEN current
    ELSE PlaceForClasses(
            IF Head(cgSeq) \in cgs
            THEN PlaceValue(current, Head(cgSeq), r,
                            PairKey(r.subject_fk_id, r.teacher_id))
            ELSE current,
            Tail(cgSeq), r, cgs)

RECURSIVE CurrentFrom(_, _, _, _)
CurrentFrom(tts, i, cgs, current) ==
    IF i > Len(tts) THEN current
    ELSE CurrentFrom(tts, i + 1, cgs,
            IF tts[i].subject_fk_id = 0 \/ tts[i].teacher_id = 0 THEN current
            ELSE PlaceForClasses(current, SortedSeq(tts[i].class_groups), tts[i], cgs))

\* context["current"]: field name (without the cell_ prefix) -> "subj-teacher"
CurrentMap(rows, S, cgs) ==
    CurrentFrom(SelectedTimetables(rows, S, cgs), 1, cgs, << >>)

\* -------------------------------------------------------------------- state
VARIABLES
    timetable,     \* the Timetable table with its class_groups links
    jointSubject,  \* the JointSubject table: subject id -> active
    jointSets,     \* the JointClassGroupSet table, in the order it is read
    phase,         \* "idle", or "done": the browser shows a builder response
    req,           \* the POST handled last: [builder, action, selected, post]
    resp,          \* its response: [status, error_message, current]
    again,         \* the POST handled last repeated the form before it
    txn,           \* a save under way, statement by statement
    seen,          \* what a reader of the table saw while a save was under way
    race,          \* two saves under way at once, statement by statement
    lessonRecords, \* the LessonRecord table
    stats,         \* logical_map of the last remedial_stats response
    normalSlots,   \* the NormalLessonSlot table
    attendance,    \* the NormalLessonAttendance table
    books,         \* the Book table of the library: book id -> status
    borrowRecords, \* the BorrowRecord table
    loans,         \* loan creations under way at once, statement by statement
    amountPaid,    \* Student.amount_paid: student id -> amount
    studentPayments \* the StudentPayment table

vars == <<timetable, jointSubject, jointSets, phase, req, resp, again, txn, seen,
          race, lessonRecords, stats, normalSlots, attendance, books, borrowRecords,
          loans, amountPaid, studentPayments>>
conc == <<txn, seen>>
\* what the timetable builders neither read nor write
aside == <<race, stats, normalSlots, attendance>>
\* the library and the fee payments, which the lesson views neither read nor
\* write
apart == <<books, borrowRecords, loans, amountPaid, studentPayments>>

NoReq  == [builder |-> "none", action |-> "none", selected |-> {}, post |-> << >>]
NoResp == [status |-> 0, error_message |-> NoError, current |-> << >>]
NoTxn  == [pc |-> "none", cgs |-> << >>, cells |-> << >>, i |-> 0,
           created_keys |-> {}, before |-> {}]
NoSeen == [read |-> FALSE, grid |-> {}]
NoRace == << >>
NoStats == << >>
NoBooks == << >>
NoLoans == << >>
NoStudents == << >>

\* The values a cell of the form can carry: the option keys of the dropdown
\* (pairs of existing ids), a pair naming a subject that does not exist, and
\* a value that is no pair.
CellValues ==
    {PairKey(s, t) : s \in 1..(NumSubjects + 1), t \in TeacherIds} \cup {<<"x">>}

FieldNameSet(S, cgs) == LET names == FieldNames(S, cgs)
                        IN {names[i] : i \in DOMAIN names}

\* The forms with at most MaxCells filled cells.
Forms(S, cgs) ==
    UNION {[K -> CellValues] :
           K \in {k \in SUBSET FieldNameSet(S, cgs) : Cardinality(k) <= MaxCells}}

\* The POSTs of a builder page: selected class groups, an action, the cells.
Posts(builder, S, actions) ==
    UNION {UNION {{[builder |-> builder, action |-> a, selected |-> cgs, post |-> p] :
                      p \in (IF a = "save" THEN Forms(S, cgs) ELSE {<< >>})} :
                  a \in actions} :
           cgs \in (SUBSET ClassGroupIds) \ {{}}}

JointSet(name, class_groups, active) ==
    [name |-> name, class_groups |-> class_groups, active |-> active]

\* The joint configurations the model starts from: <<JointSubject table,
\* JointClassGroupSet table>>.  Subject 1 has a JointSubject record, subject 2
\* has none; the class groups 1 and 2 are in one set, in different sets, in
\* no active set, or class group 1 is in two active sets.
JointConfigurations ==
    { << (1 :> TRUE),  << JointSet("F2", {1, 2}, TRUE) >> >>,
      << (1 :> FALSE), << JointSet("F2", {1, 2}, TRUE) >> >>,
      << (1 :> TRUE),  << JointSet("F2N", {1}, TRUE), JointSet("F2", {1, 2}, FALSE) >> >>,
      << (1 :> TRUE),  << JointSet("F2N", {1}, TRUE), JointSet("F2S", {2}, TRUE) >> >>,
      << (1 :> TRUE),  << JointSet("F2", {1, 2}, TRUE), JointSet("F2N", {1}, TRUE) >> >> }

Init ==
    /\ timetable = {}
    /\ \E c \in JointConfigurations : jointSubject = c[1] /\ jointSets = c[2]
    /\ phase = "idle"
    /\ req = NoReq
    /\ resp = NoResp
    /\ again = FALSE
    /\ txn = NoTxn
    /\ seen = NoSeen
    /\ race = NoRace
    /\ lessonRecords = {}
    /\ stats = NoStats
    /\ normalSlots = {}
    /\ attendance = {}
    /\ books = NoBooks
    /\ borrowRecords = {}
    /\ loans = NoLoans
    /\ amountPaid = NoStudents
    /\ studentPayments = {}

\* ------------------------------------------------------------------ actions
\* The branch `elif action == "save"` of either builder.
HandleSave(S, r) ==
    LET err == ValidationError(S, r.selected, r.post, jointSubject, jointSets)
        res == ReplaceRows(timetable, S, r.selected, r.post)
    IN IF err # NoError
       THEN /\ timetable' = timetable
            /\ lessonRecords' = lessonRecords
            /\ resp' = [status |-> 200, error_message |-> err,
                        current |-> CurrentMap(timetable, S, r.selected)]
       ELSE /\ timetable' = res.rows
            /\ lessonRecords' = CascadeDelete(lessonRecords, timetable, S, r.selected)
            /\ resp' = IF res.raised
                       THEN [status |-> 500, error_message |-> NoError, current |-> << >>]
                       ELSE [status |-> 200, error_message |-> NoError,
                             current |-> CurrentMap(res.rows, S, r.selected)]

\* The branch `if action == "clear"` of timetable_builder.
HandleClear(S, r) ==
    /\ timetable' = DeleteSelected(timetable, S, r.selected)
    /\ lessonRecords' = CascadeDelete(lessonRecords, timetable, S, r.selected)
    /\ resp' = [status |-> 200, error_message |-> NoError,
                current |-> CurrentMap(timetable', S, r.selected)]

\* HandleUnknown clearing the selected class groups.
HandleUnknownAsClear(S, r) ==
    /\ timetable' = DeleteSelected(timetable, S, r.selected)
    /\ lessonRecords' = CascadeDelete(lessonRecords, timetable, S, r.selected)
    /\ resp' = [status |-> 200, error_message |-> MsgUnknownAction,
                current |-> CurrentMap(timetable', S, r.selected)]

\* The final else branch: the action is missing or not one the builder knows.
HandleUnknown(S, r) ==
    /\ timetable' = timetable
    /\ lessonRecords' = lessonRecords
    /\ resp' = [status |-> 200, error_message |-> MsgUnknownAction,
                current |-> CurrentMap(timetable, S, r.selected)]

\* The POSTs the browser can send to a builder now: any form from a fresh
\* page, or once more the form it sent last and the builder accepted.
Sendable(builder, S, actions) ==
    IF phase = "idle" THEN Posts(builder, S, actions)
    ELSE IF /\ ~again /\ req.builder = builder
            /\ resp.status = 200 /\ resp.error_message = NoError
         THEN {req}
         ELSE {}

\* timetable_builder handles a POST with selected class groups
TimetableBuilder ==
    \E r \in Sendable("normal", FixedTimetableStructure, {"save", "clear", ""}) :
        /\ IF r.action = "clear" THEN HandleClear(FixedTimetableStructure, r)
           ELSE IF r.action = "save" THEN HandleSave(FixedTimetableStructure, r)
           ELSE HandleUnknown(FixedTimetableStructure, r)
        /\ req' = r
        /\ again' = (phase = "done")
        /\ phase' = "done"
        /\ UNCHANGED <<jointSubject, jointSets, conc, aside, apart>>

\* remedial_timetable_builder handles a POST with selected class groups
RemedialTimetableBuilder ==
    \E r \in Sendable("remedial", FixedRemedialStructure, {"save", "clear", ""}) :
        /\ IF r.action = "save" THEN HandleSave(FixedRemedialStructure, r)
           ELSE HandleUnknown(FixedRemedialStructure, r)
        /\ req' = r
        /\ again' = (phase = "done")
        /\ phase' = "done"
        /\ UNCHANGED <<jointSubject, jointSets, conc, aside, apart>>

\* Timetable.clean passes for a new row: no other row of the teacher in the
\* same day, start and end has a different subject.
TimetableClean(rows, subj, teacher, day, st, et) ==
    ~\E r \in rows : /\ r.teacher_id = teacher /\ r.day = day
                     /\ r.start_time = st /\ r.end_time = et
                     /\ r.subject_fk_id # subj

SharedRows(rows) == {r \in rows : Cardinality(r.class_groups) > 1}

\* TimetableAdmin: the add form saves one row attached to several class
\* groups (rows of one class group are the ones the builders write).
AdminAddTimetable ==
    /\ phase = "idle"
    /\ Cardinality(SharedRows(timetable)) < MaxSharedRows
    /\ \E subj \in SubjectIds, teacher \in TeacherIds,
          S \in {FixedTimetableStructure, FixedRemedialStructure},
          cgs \in {c \in SUBSET ClassGroupIds : Cardinality(c) > 1} :
         \E d \in DOMAIN S.days, sl \in DOMAIN S.slots :
            /\ TimetableClean(timetable, subj, teacher, S.days[d],
                              S.slots[sl][1], S.slots[sl][2])
            /\ timetable' = timetable \cup
                 {[id |-> FreshId(timetable), subject_fk_id |-> subj,
                   teacher_id |-> teacher, day |-> S.days[d],
                   start_time |-> S.slots[sl][1], end_time |-> S.slots[sl][2],
                   class_groups |-> cgs]}
    /\ UNCHANGED <<jointSubject, jointSets, phase, req, resp, again, conc, aside,
                   lessonRecords, apart>>

\* The browser leaves the builder page.
Leave ==
    /\ phase = "done"
    /\ phase' = "idle"
    /\ req' = NoReq
    /\ resp' = NoResp
    /\ again' = FALSE
    /\ UNCHANGED <<timetable, jointSubject, jointSets, conc, aside, lessonRecords, apart>>

Next ==
    \/ TimetableBuilder
    \/ RemedialTimetableBuilder
    \/ Leave

Spec == Init /\ [][Next]_vars

\* The builders over a table that also holds rows entered through the admin
\* site, with nothing configured as joint.
InitAdmin ==
    /\ timetable = {}
    /\ jointSubject = << >>
    /\ jointSets = << >>
    /\ phase = "idle"
    /\ req = NoReq
    /\ resp = NoResp
    /\ again = FALSE
    /\ txn = NoTxn
    /\ seen = NoSeen
    /\ race = NoRace
    /\ lessonRecords = {}
    /\ stats = NoStats
    /\ normalSlots = {}
    /\ attendance = {}
    /\ books = NoBooks
    /\ borrowRecords = {}
    /\ loans = NoLoans
    /\ amountPaid = NoStudents
    /\ studentPayments = {}

NextAdmin ==
    \/ TimetableBuilder
    \/ RemedialTimetableBuilder
    \/ AdminAddTimetable
    \/ Leave

SpecAdmin == InitAdmin /\ [][NextAdmin]_vars

\* ------------------------------------------- a save, statement by statement
\* The views run without transaction.atomic: every ORM statement of a save
\* commits on its own, and other requests read the table between them.  The
\* stepwise specification takes the save of timetable_builder through its
\* statements, beside a reader of the master timetable.

\* The validation stages of a save read the form and the joint tables; a
\* rejected save answers at once, an accepted one goes on to its statements.
BeginSave ==
    /\ phase = "idle"
    /\ \E r \in Posts("normal", FixedTimetableStructure, {"save"}) :
          LET err == ValidationError(FixedTimetableStructure, r.selected, r.post,
                                     jointSubject, jointSets)
          IN /\ req' = r
             /\ IF err # NoError
                THEN /\ phase' = "done"
                     /\ resp' = [status |-> 200, error_message |-> err,
                                 current |-> CurrentMap(timetable, FixedTimetableStructure,
                                                        r.selected)]
                     /\ txn' = NoTxn
                ELSE /\ phase' = "saving"
                     /\ resp' = NoResp
                     /\ txn' = [pc |-> "delete", cgs |-> SortedSeq(r.selected),
                                cells |-> DecodedCells(FixedTimetableStructure,
                                                       r.selected, r.post),
                                i |-> 1, created_keys |-> {}, before |-> timetable]
    /\ UNCHANGED <<timetable, jointSubject, jointSets, again, seen, aside, lessonRecords, apart>>

\* One pass of `for cg in class_groups: Timetable.objects.filter(...).delete()`
DeleteStatement ==
    /\ phase = "saving"
    /\ txn.pc = "delete"
    /\ timetable' = DeleteSelected(timetable, FixedTimetableStructure, {Head(txn.cgs)})
    /\ lessonRecords' = CascadeDelete(lessonRecords, timetable, FixedTimetableStructure,
                                      {Head(txn.cgs)})
    /\ txn' = [txn EXCEPT !.cgs = Tail(txn.cgs),
                          !.pc = IF Tail(txn.cgs) = <<>> THEN "create" ELSE "delete"]
    /\ UNCHANGED <<jointSubject, jointSets, phase, req, resp, again, seen, aside, apart>>

CellKey(c) == <<c.cg, c.day, c.st, c.et, c.subj, c.teacher>>

\* The next cell of the second scan that is not `in created_keys`, or
\* Len(cells) + 1 when the scan is over.
NextCell(t) ==
    LET rest == {j \in t.i..Len(t.cells) : CellKey(t.cells[j]) \notin t.created_keys}
    IN IF rest = {} THEN Len(t.cells) + 1
       ELSE CHOOSE j \in rest : \A k \in rest : j <= k

\* Timetable.objects.create(...): the INSERT of a row that has no class group
\* yet, or the IntegrityError that ends the request.
CreateStatement ==
    /\ phase = "saving"
    /\ txn.pc = "create"
    /\ NextCell(txn) <= Len(txn.cells)
    /\ LET j == NextCell(txn)
           c == txn.cells[j]
       IN IF ~ForeignKeysExist(c.subj, c.teacher)
          THEN /\ timetable' = timetable
               /\ txn' = NoTxn
               /\ seen' = NoSeen
               /\ phase' = "done"
               /\ resp' = [status |-> 500, error_message |-> NoError, current |-> << >>]
          ELSE /\ timetable' = timetable \cup
                     {[id |-> FreshId(timetable), subject_fk_id |-> c.subj,
                       teacher_id |-> c.teacher, day |-> c.day,
                       start_time |-> c.st, end_time |-> c.et, class_groups |-> {}]}
               /\ txn' = [txn EXCEPT !.pc = "link", !.i = j,
                                     !.created_keys = @ \cup {CellKey(c)}]
               /\ UNCHANGED <<seen, phase, resp, apart>>
    /\ UNCHANGED <<jointSubject, jointSets, req, again, aside, lessonRecords, apart>>

\* tt.class_groups.add(cg), for the row created last
LinkStatement ==
    /\ phase = "saving"
    /\ txn.pc = "link"
    /\ LET c == txn.cells[txn.i]
           tt == CHOOSE r \in timetable :
                    /\ r.class_groups = {}
                    /\ CellKey([cg |-> c.cg, day |-> r.day, st |-> r.start_time,
                                et |-> r.end_time, subj |-> r.subject_fk_id,
                                teacher |-> r.teacher_id]) = CellKey(c)
       IN timetable' = (timetable \ {tt}) \cup {[tt EXCEPT !.class_groups = {c.cg}]}
    /\ txn' = [txn EXCEPT !.pc = "create", !.i = @ + 1]
    /\ UNCHANGED <<jointSubject, jointSets, phase, req, resp, again, seen, aside,
                   lessonRecords, apart>>

\* The scan is over: the view builds `current` and renders the page.
FinishSave ==
    /\ phase = "saving"
    /\ txn.pc = "create"
    /\ NextCell(txn) > Len(txn.cells)
    /\ resp' = [status |-> 200, error_message |-> NoError,
                current |-> CurrentMap(timetable, FixedTimetableStructure, req.selected)]
    /\ phase' = "done"
    /\ txn' = NoTxn
    /\ seen' = NoSeen
    /\ UNCHANGED <<timetable, jointSubject, jointSets, req, again, aside, lessonRecords, apart>>

\* The grid of timetable_master: the (class group, day, start, end) cells
\* with the subject and teacher of each row listed in them.
MasterGrid(rows) ==
    LET tts == {x \in rows : /\ x.day \in DaySet(FixedTimetableStructure)
                             /\ x.start_time \in StartTimes(FixedTimetableStructure)}
    IN UNION {{<<cg, tt.day, tt.start_time, tt.end_time, tt.subject_fk_id, tt.teacher_id>> :
                  cg \in tt.class_groups} : tt \in tts}

\* timetable_master answers a GET while a save is under way.  The observation
\* is kept until that save ends.
TimetableMaster ==
    /\ phase = "saving"
    /\ seen' = [read |-> TRUE, grid |-> MasterGrid(timetable)]
    /\ UNCHANGED <<timetable, jointSubject, jointSets, phase, req, resp, again, txn,
                   aside, lessonRecords, apart>>

InitSteps ==
    /\ timetable = {}
    /\ jointSubject = (1 :> TRUE)
    /\ jointSets = << JointSet("F2", {1, 2}, TRUE) >>
    /\ phase = "idle"
    /\ req = NoReq
    /\ resp = NoResp
    /\ again = FALSE
    /\ txn = NoTxn
    /\ seen = NoSeen
    /\ race = NoRace
    /\ lessonRecords = {}
    /\ stats = NoStats
    /\ normalSlots = {}
    /\ attendance = {}
    /\ books = NoBooks
    /\ borrowRecords = {}
    /\ loans = NoLoans
    /\ amountPaid = NoStudents
    /\ studentPayments = {}

NextSteps ==
    \/ BeginSave
    \/ DeleteStatement
    \/ CreateStatement
    \/ LinkStatement
    \/ FinishSave
    \/ TimetableMaster
    \/ Leave

SpecSteps == InitSteps /\ [][NextSteps]_vars

\* ----------------------------------------------------- two saves at once
\* Two requests to timetable_builder are handled at the same time (two
\* worker processes or threads), each going through its statements; the
\* statements of the two interleave in any order.
Writers == {1, 2}

NoWriter == [pc |-> "none", r |-> NoReq, cgs |-> << >>, cells |-> << >>, i |-> 0,
             created_keys |-> {}, tt |-> 0]

\* The forms of the two requests: at most MaxRaceCells filled cells.
RacePosts ==
    {r \in Posts("normal", FixedTimetableStructure, {"save"}) :
        Cardinality(DOMAIN r.post) <= MaxRaceCells}

\* the variables the statements of a save leave alone
raceFrame == <<jointSubject, jointSets, phase, req, resp, again, conc, stats,
               normalSlots, attendance, apart>>

\* A request arrives and passes the validation stages, or is rejected by
\* them.  (The second request is the one that arrives second.)
RaceBeginSave ==
    /\ \E w \in Writers :
         /\ race[w].pc = "none"
         /\ \A v \in Writers : v < w => race[v].pc # "none"
         /\ \E r \in RacePosts :
              LET err == ValidationError(FixedTimetableStructure, r.selected, r.post,
                                         jointSubject, jointSets)
              IN race' = [race EXCEPT ![w] =
                    IF err # NoError
                    THEN [NoWriter EXCEPT !.pc = "rejected", !.r = r]
                    ELSE [pc |-> "delete", r |-> r, cgs |-> SortedSeq(r.selected),
                          cells |-> DecodedCells(FixedTimetableStructure,
                                                 r.selected, r.post),
                          i |-> 1, created_keys |-> {}, tt |-> 0]]
    /\ UNCHANGED <<timetable, lessonRecords, raceFrame, apart>>

\* One pass of the delete loop of one of the requests.
RaceDeleteStatement ==
    /\ \E w \in Writers :
         /\ race[w].pc = "delete"
         /\ timetable' = DeleteSelected(timetable, FixedTimetableStructure,
                                        {Head(race[w].cgs)})
         /\ lessonRecords' = CascadeDelete(lessonRecords, timetable,
                                FixedTimetableStructure, {Head(race[w].cgs)})
         /\ race' = [race EXCEPT ![w].cgs = Tail(@),
                        ![w].pc = IF Tail(race[w].cgs) = <<>> THEN "create" ELSE "delete"]
    /\ UNCHANGED raceFrame

\* Timetable.objects.create(...) of one of the requests.
RaceCreateStatement ==
    /\ \E w \in Writers :
         /\ race[w].pc = "create"
         /\ NextCell(race[w]) <= Len(race[w].cells)
         /\ LET j == NextCell(race[w])
                c == race[w].cells[j]
            IN IF ~ForeignKeysExist(c.subj, c.teacher)
               THEN /\ timetable' = timetable
                    /\ race' = [race EXCEPT ![w].pc = "raised"]
               ELSE /\ timetable' = timetable \cup
                          {[id |-> FreshId(timetable), subject_fk_id |-> c.subj,
                            teacher_id |-> c.teacher, day |-> c.day,
                            start_time |-> c.st, end_time |-> c.et,
                            class_groups |-> {}]}
                    /\ race' = [race EXCEPT ![w].pc = "link", ![w].i = j,
                                   ![w].tt = FreshId(timetable),
                                   ![w].created_keys = @ \cup {CellKey(c)}]
    /\ UNCHANGED <<lessonRecords, raceFrame, apart>>

\* tt.class_groups.add(cg) of one of the requests.
RaceLinkStatement ==
    /\ \E w \in Writers :
         /\ race[w].pc = "link"
         /\ timetable' =
               {IF x.id = race[w].tt
                THEN [x EXCEPT !.class_groups = @ \cup {race[w].cells[race[w].i].cg}]
                ELSE x : x \in timetable}
         /\ race' = [race EXCEPT ![w].pc = "create", ![w].i = @ + 1]
    /\ UNCHANGED <<lessonRecords, raceFrame, apart>>

\* The second scan of one of the requests is over; it renders its page.
RaceFinishSave ==
    /\ \E w \in Writers :
         /\ race[w].pc = "create"
         /\ NextCell(race[w]) > Len(race[w].cells)
         /\ race' = [race EXCEPT ![w].pc = "done"]
    /\ UNCHANGED <<timetable, lessonRecords, raceFrame, apart>>

InitRace ==
    /\ timetable = {}
    /\ jointSubject = (1 :> TRUE)
    /\ jointSets = << JointSet("F2", {1, 2}, TRUE) >>
    /\ phase = "idle"
    /\ req = NoReq
    /\ resp = NoResp
    /\ again = FALSE
    /\ txn = NoTxn
    /\ seen = NoSeen
    /\ race = [w \in Writers |-> NoWriter]
    /\ lessonRecords = {}
    /\ stats = NoStats
    /\ normalSlots = {}
    /\ attendance = {}
    /\ books = NoBooks
    /\ borrowRecords = {}
    /\ loans = NoLoans
    /\ amountPaid = NoStudents
    /\ studentPayments = {}

NextRace ==
    \/ RaceBeginSave
    \/ RaceDeleteStatement
    \/ RaceCreateStatement
    \/ RaceLinkStatement
    \/ RaceFinishSave

SpecRace == InitRace /\ [][NextRace]_vars

\* ------------------------------------------------------- remedial records
\* LessonRecord rows: [id, timetable, week, status, payment_status].
WeekIds == 1..NumWeeks

StatusChoices  == {"Pending", "Attended", "Not Attended"}
PaymentChoices == {"Unpaid", "Paid"}

\* status_rank and payment_rank of remedial_stats, on the values the model
\* column choices allow (strip and lower leave their rank as it is).
StatusRankPendingFirst(val) ==
    IF val = "Pending" THEN 3
    ELSE IF val = "Not Attended" THEN 2
    ELSE IF val = "Attended" THEN 1 ELSE 0

StatusRank(val) ==
    IF val = "Attended" THEN 3
    ELSE IF val = "Not Attended" THEN 2
    ELSE IF val = "Pending" THEN 1 ELSE 0

PaymentRank(val) ==
    IF val = "Paid" THEN 2
    ELSE IF val = "Unpaid" THEN 1 ELSE 0

\* The Timetable row a LessonRecord points to.
TimetableOf(rows, rec) == CHOOSE r \in rows : r.id = rec.timetable

\* key = (tt.teacher_id, tt.day, tt.start_time, tt.end_time, tt.subject_fk_id)
LogicalKey(tt) == <<tt.teacher_id, tt.day, tt.start_time, tt.end_time, tt.subject_fk_id>>

\* agg["status"] / agg["payment_status"] before the first record: None
NoneValue == "None"

RECURSIVE MergeFrom(_, _, _, _)
\* `for rec in lessons:` of remedial_stats, over the records in the order
\* the query returns them.
MergeFrom(recs, i, rows, logical_map) ==
    IF i > Len(recs) THEN logical_map
    ELSE LET rec == recs[i]
             key == LogicalKey(TimetableOf(rows, rec))
             agg == IF key \in DOMAIN logical_map THEN logical_map[key]
                    ELSE [status |-> NoneValue, payment_status |-> NoneValue]
             new_status == IF rec.status = "" THEN "Pending" ELSE rec.status
             new_pay == rec.payment_status
             st == IF agg.status = NoneValue
                      \/ StatusRank(new_status) > StatusRank(agg.status)
                   THEN new_status ELSE agg.status
             pay == IF new_pay # ""
                       /\ (agg.payment_status = NoneValue
                           \/ PaymentRank(new_pay) > PaymentRank(agg.payment_status))
                    THEN new_pay ELSE agg.payment_status
         IN MergeFrom(recs, i + 1, rows,
               [k \in DOMAIN logical_map \cup {key} |->
                   IF k = key THEN [status |-> st, payment_status |-> pay]
                   ELSE logical_map[k]])

\* The orders in which a query without order_by can return a set of rows.
Orders(S) ==
    {q \in [1..Cardinality(S) -> S] : \A i, j \in DOMAIN q : q[i] = q[j] => i = j}

\* The records remedial_stats reads: all, or those of the week in ?week=.
FilteredRecords(records, week) ==
    {l \in records : week = 0 \/ l.week = week}

FreshRecordId(records) ==
    CHOOSE n \in 1..(Cardinality(records) + 1) : \A l \in records : l.id # n

RECURSIVE GenerateFromAlways(_, _, _, _)
\* GenerateFrom with create in the place of get_or_create.
GenerateFromAlways(tts, i, week, records) ==
    IF i > Len(tts) THEN records
    ELSE GenerateFromAlways(tts, i + 1, week,
            records \cup {[id |-> FreshRecordId(records), timetable |-> tts[i].id,
                           week |-> week, status |-> "Pending",
                           payment_status |-> "Unpaid"]})

RECURSIVE GenerateFrom(_, _, _, _)
\* `for tt in timetables: LessonRecord.objects.get_or_create(timetable=tt,
\* week=selected_week, defaults=...)`
GenerateFrom(tts, i, week, records) ==
    IF i > Len(tts) THEN records
    ELSE GenerateFrom(tts, i + 1, week,
            IF \E l \in records : l.timetable = tts[i].id /\ l.week = week
            THEN records
            ELSE records \cup {[id |-> FreshRecordId(records), timetable |-> tts[i].id,
                                week |-> week, status |-> "Pending",
                                payment_status |-> "Unpaid"]})

\* generate_remedial_week_lessons handles a POST naming an existing week.
GenerateRemedialWeekLessons ==
    /\ phase = "idle"
    /\ Cardinality(timetable) <= MaxRecordRows
    /\ \E week \in WeekIds :
          lessonRecords' = GenerateFrom(RowsById(timetable), 1, week, lessonRecords)
    /\ UNCHANGED <<timetable, jointSubject, jointSets, phase, req, resp, again, conc,
                   aside, apart>>

\* remedial_teacher_details handles the bulk update POST: the records named
\* in record_ids get the new status and the new payment status, where given.
RemedialTeacherDetails ==
    /\ phase = "idle"
    /\ \E ids \in (SUBSET {l.id : l \in lessonRecords}) \ {{}},
          new_status \in StatusChoices \cup {""},
          new_payment \in PaymentChoices \cup {""} :
         /\ new_status # "" \/ new_payment # ""
         /\ lessonRecords' =
               {IF l.id \in ids
                THEN [l EXCEPT !.status = IF new_status # "" THEN new_status ELSE @,
                               !.payment_status = IF new_payment # "" THEN new_payment
                                                  ELSE @]
                ELSE l : l \in lessonRecords}
    /\ UNCHANGED <<timetable, jointSubject, jointSets, phase, req, resp, again, conc,
                   aside, apart>>

\* remedial_stats answers a GET: the merged status and payment status of each
\* logical lesson, from the records in the order the query returns them.
RemedialStats ==
    /\ phase = "idle"
    /\ lessonRecords # {}
    /\ \E week \in {0} \cup WeekIds :
         \E recs \in Orders(FilteredRecords(lessonRecords, week)) :
            stats' = [week |-> week, logical_map |-> MergeFrom(recs, 1, timetable, << >>)]
    /\ phase' = "stats"
    /\ UNCHANGED <<timetable, jointSubject, jointSets, req, resp, again, conc, race,
                   lessonRecords, normalSlots, attendance, apart>>

\* The browser leaves the stats page.
LeaveStats ==
    /\ phase = "stats"
    /\ phase' = "idle"
    /\ stats' = NoStats
    /\ UNCHANGED <<timetable, jointSubject, jointSets, req, resp, again, conc, race,
                   lessonRecords, normalSlots, attendance, apart>>

\* The cells of a remedial form: field name -> "subj-teacher".
RemedialCell(cg, subj, teacher) ==
    <<cg, FixedRemedialStructure.days[1], FixedRemedialStructure.slots[1][1],
      FixedRemedialStructure.slots[1][2], 1>> :> PairKey(subj, teacher)

\* Remedial timetables left by accepted saves: one joint lesson saved for the
\* class groups 1 and 2 together, and the lessons of two subjects saved for
\* class group 1 and for class group 2 one after the other.
StatsTables ==
    { ReplaceRows({}, FixedRemedialStructure, {1, 2},
                  RemedialCell(1, 1, 1) @@ RemedialCell(2, 1, 1)).rows,
      ReplaceRows(ReplaceRows({}, FixedRemedialStructure, {1},
                              RemedialCell(1, 2, 1)).rows,
                  FixedRemedialStructure, {2}, RemedialCell(2, 1, 1)).rows }

\* remedial_stats over the records of a remedial timetable that is in place.
InitStats ==
    /\ timetable \in StatsTables
    /\ jointSubject = (1 :> TRUE)
    /\ jointSets = << JointSet("F2", {1, 2}, TRUE) >>
    /\ phase = "idle"
    /\ req = NoReq
    /\ resp = NoResp
    /\ again = FALSE
    /\ txn = NoTxn
    /\ seen = NoSeen
    /\ race = NoRace
    /\ lessonRecords = {}
    /\ stats = NoStats
    /\ normalSlots = {}
    /\ attendance = {}
    /\ books = NoBooks
    /\ borrowRecords = {}
    /\ loans = NoLoans
    /\ amountPaid = NoStudents
    /\ studentPayments = {}

NextStats ==
    \/ GenerateRemedialWeekLessons
    \/ RemedialTeacherDetails
    \/ RemedialStats
    \/ LeaveStats

SpecStats == InitStats /\ [][NextStats]_vars

\* The remedial builder over a table whose rows have LessonRecords.
InitRecords ==
    /\ timetable = {}
    /\ jointSubject = (1 :> TRUE)
    /\ jointSets = << JointSet("F2", {1, 2}, TRUE) >>
    /\ phase = "idle"
    /\ req = NoReq
    /\ resp = NoResp
    /\ again = FALSE
    /\ txn = NoTxn
    /\ seen = NoSeen
    /\ race = NoRace
    /\ lessonRecords = {}
    /\ stats = NoStats
    /\ normalSlots = {}
    /\ attendance = {}
    /\ books = NoBooks
    /\ borrowRecords = {}
    /\ loans = NoLoans
    /\ amountPaid = NoStudents
    /\ studentPayments = {}

NextRecords ==
    \/ RemedialTimetableBuilder
    \/ GenerateRemedialWeekLessons
    \/ Leave

SpecRecords == InitRecords /\ [][NextRecords]_vars

\* ---------------------------------------------------- normal week lessons
\* NormalLessonSlot rows: [day, start_time, end_time, class_group, subject_fk,
\* teacher]; NormalLessonAttendance rows: [id, slot, date, status], the date being
\* the start_date of a Week, written as the week's id.

\* The slot get_or_create returns for a Timetable row and a class group.
SlotOf(tt, cg) ==
    [day |-> tt.day, start_time |-> tt.start_time, end_time |-> tt.end_time,
     class_group |-> cg, subject_fk |-> tt.subject_fk_id, teacher |-> tt.teacher_id]

\* Timetable.objects.filter(day__in=days, start_time__in=normal_start_times)
NormalTimetables(rows) ==
    RowsById({r \in rows : /\ r.day \in DaySet(FixedTimetableStructure)
                           /\ r.start_time \in StartTimes(FixedTimetableStructure)})

\* The primary key the database gives the next NormalLessonAttendance.
FreshAttendanceId(atts) ==
    CHOOSE n \in 1..(Cardinality(atts) + 1) : \A a \in atts : a.id # n

RECURSIVE GenerateWeekFromAlways(_, _, _, _, _)
\* GenerateWeekFrom with create in the place of the attendance get_or_create.
GenerateWeekFromAlways(tts, i, week, slots, atts) ==
    IF i > Len(tts) THEN [slots |-> slots, atts |-> atts]
    ELSE LET tt == tts[i]
             cgSeq == SortedSeq(tt.class_groups)
             newSlots == slots \cup {SlotOf(tt, cg) : cg \in tt.class_groups}
             newAtts ==
                 IF cgSeq = <<>> THEN atts
                 ELSE atts \cup {[id |-> FreshAttendanceId(atts),
                                  slot |-> SlotOf(tt, cgSeq[1]), date |-> week,
                                  status |-> "Pending"]}
         IN GenerateWeekFromAlways(tts, i + 1, week, newSlots, newAtts)

RECURSIVE GenerateWeekFrom(_, _, _, _, _)
\* `for tt in tts:` of generate_week_lessons: a slot per class group of the
\* row, and an attendance for the week at the first of them.
GenerateWeekFrom(tts, i, week, slots, atts) ==
    IF i > Len(tts) THEN [slots |-> slots, atts |-> atts]
    ELSE LET tt == tts[i]
             cgSeq == SortedSeq(tt.class_groups)
             newSlots == slots \cup {SlotOf(tt, cg) : cg \in tt.class_groups}
             newAtts ==
                 IF cgSeq = <<>> THEN atts
                 ELSE LET first_slot == SlotOf(tt, cgSeq[1])
                      IN IF \E a \in atts : a.slot = first_slot /\ a.date = week
                         THEN atts
                         ELSE atts \cup {[id |-> FreshAttendanceId(atts),
                                          slot |-> first_slot, date |-> week,
                                          status |-> "Pending"]}
         IN GenerateWeekFrom(tts, i + 1, week, newSlots, newAtts)

\* The week id of a POST for which Week.objects.get finds no week.
NoWeek == 0

\* generate_week_lessons handles a POST; a week that does not exist leaves
\* selected_week None and nothing is generated.
GenerateWeekLessons ==
    /\ phase = "idle"
    /\ Cardinality(attendance) < MaxAttendance
    /\ \E week \in WeekIds \cup {NoWeek} :
          LET res == IF week = NoWeek
                     THEN [slots |-> normalSlots, atts |-> attendance]
                     ELSE GenerateWeekFrom(NormalTimetables(timetable), 1, week,
                                           normalSlots, attendance)
          IN /\ normalSlots' = res.slots
             /\ attendance' = res.atts
             /\ req' = [builder |-> "weeks", action |-> "generate", selected |-> {},
                        post |-> << >>, week |-> week,
                        created_att |-> Cardinality(res.atts) - Cardinality(attendance)]
    /\ phase' = "generated"
    /\ UNCHANGED <<timetable, jointSubject, jointSets, resp, again, conc, race,
                   lessonRecords, stats, apart>>

\* The browser leaves the page of generate_week_lessons.
LeaveWeeks ==
    /\ phase = "generated"
    /\ phase' = "idle"
    /\ req' = NoReq
    /\ UNCHANGED <<timetable, jointSubject, jointSets, resp, again, conc, aside,
                   lessonRecords, apart>>

InitWeeks ==
    /\ timetable = {}
    /\ jointSubject = (1 :> TRUE)
    /\ jointSets = << JointSet("F2", {1, 2}, TRUE) >>
    /\ phase = "idle"
    /\ req = NoReq
    /\ resp = NoResp
    /\ again = FALSE
    /\ txn = NoTxn
    /\ seen = NoSeen
    /\ race = NoRace
    /\ lessonRecords = {}
    /\ stats = NoStats
    /\ normalSlots = {}
    /\ attendance = {}
    /\ books = NoBooks
    /\ borrowRecords = {}
    /\ loans = NoLoans
    /\ amountPaid = NoStudents
    /\ studentPayments = {}

NextWeeks ==
    \/ TimetableBuilder
    \/ GenerateWeekLessons
    \/ LeaveWeeks
    \/ Leave

SpecWeeks == InitWeeks /\ [][NextWeeks]_vars

\* ------------------------------------------------------ normal statistics
\* The cells of a normal form: field name -> "subj-teacher".
NormalCell(cg, subj, teacher) ==
    <<cg, FixedTimetableStructure.days[1], FixedTimetableStructure.slots[1][1],
      FixedTimetableStructure.slots[1][2], 1>> :> PairKey(subj, teacher)

\* Normal timetables left by accepted saves: one joint lesson saved for the
\* class groups 1 and 2 together, and the lessons of two subjects saved for
\* class group 1 and for class group 2 one after the other.
NormalTables ==
    { ReplaceRows({}, FixedTimetableStructure, {1, 2},
                  NormalCell(1, 1, 1) @@ NormalCell(2, 1, 1)).rows,
      ReplaceRows(ReplaceRows({}, FixedTimetableStructure, {1},
                              NormalCell(1, 2, 1)).rows,
                  FixedTimetableStructure, {2}, NormalCell(2, 1, 1)).rows }

\* key = (slot.teacher_id, slot.day, slot.start_time, slot.end_time,
\*        slot.subject_fk_id)
SlotKey(slot) ==
    <<slot.teacher, slot.day, slot.start_time, slot.end_time, slot.subject_fk>>

\* The attendance rows deputy_normal_stats reads: those of the week in ?week=
\* and of the teacher in ?teacher=, 0 standing for a parameter left out.
FilteredAttendance(atts, week, teacher) ==
    {a \in atts : /\ week = 0 \/ a.date = week
                  /\ teacher = 0 \/ a.slot.teacher = teacher}

RECURSIVE CollapseFrom(_, _, _)
\* `for att in attendances: logical_map[key] = att.status or "Pending"`
CollapseFrom(atts, i, logical_map) ==
    IF i > Len(atts) THEN logical_map
    ELSE LET att == atts[i]
             key == SlotKey(att.slot)
             status == IF att.status = "" THEN "Pending" ELSE att.status
         IN CollapseFrom(atts, i + 1,
               [k \in DOMAIN logical_map \cup {key} |->
                   IF k = key THEN status ELSE logical_map[k]])

\* normal_teacher_details handles the inline status change POST: the
\* attendance rows of the teacher at the slots named in slot_ids, of the week
\* in ?week= where given, get the new status.
NormalTeacherDetails ==
    /\ phase = "idle"
    /\ \E teacher \in TeacherIds,
          slot_ids \in (SUBSET normalSlots) \ {{}},
          new_status \in StatusChoices,
          week \in {0} \cup WeekIds :
         attendance' =
             {IF /\ a.slot \in slot_ids
                 /\ a.slot.teacher = teacher
                 /\ week = 0 \/ a.date = week
              THEN [a EXCEPT !.status = new_status]
              ELSE a : a \in attendance}
    /\ UNCHANGED <<timetable, jointSubject, jointSets, phase, req, resp, again, conc,
                   race, lessonRecords, stats, normalSlots, apart>>

\* deputy_normal_stats answers a GET: the status of each logical lesson, from
\* the attendance rows in the order the query returns them.
DeputyNormalStats ==
    /\ phase = "idle"
    /\ attendance # {}
    /\ \E week \in {0} \cup WeekIds, teacher \in {0} \cup TeacherIds :
         \E atts \in Orders(FilteredAttendance(attendance, week, teacher)) :
            stats' = [week |-> week, teacher |-> teacher,
                      logical_map |-> CollapseFrom(atts, 1, << >>)]
    /\ phase' = "normal_stats"
    /\ UNCHANGED <<timetable, jointSubject, jointSets, req, resp, again, conc, race,
                   lessonRecords, normalSlots, attendance, apart>>

\* The browser leaves the page of deputy_normal_stats.
LeaveNormalStats ==
    /\ phase = "normal_stats"
    /\ phase' = "idle"
    /\ stats' = NoStats
    /\ UNCHANGED <<timetable, jointSubject, jointSets, req, resp, again, conc, race,
                   lessonRecords, normalSlots, attendance, apart>>

\* deputy_normal_stats over the attendance of a normal timetable that is in
\* place.
InitNormalStats ==
    /\ timetable \in NormalTables
    /\ jointSubject = (1 :> TRUE)
    /\ jointSets = << JointSet("F2", {1, 2}, TRUE) >>
    /\ phase = "idle"
    /\ req = NoReq
    /\ resp = NoResp
    /\ again = FALSE
    /\ txn = NoTxn
    /\ seen = NoSeen
    /\ race = NoRace
    /\ lessonRecords = {}
    /\ stats = NoStats
    /\ normalSlots = {}
    /\ attendance = {}
    /\ books = NoBooks
    /\ borrowRecords = {}
    /\ loans = NoLoans
    /\ amountPaid = NoStudents
    /\ studentPayments = {}

NextNormalStats ==
    \/ GenerateWeekLessons
    \/ LeaveWeeks
    \/ NormalTeacherDetails
    \/ DeputyNormalStats
    \/ LeaveNormalStats

SpecNormalStats == InitNormalStats /\ [][NextNormalStats]_vars

\* --------------------------------------------------- lessons of a teacher
MsgAlreadyScheduled == "This lesson has already been scheduled for this week."

\* add_lesson_teacher handles the POST of a valid TeacherLessonForm: a week
\* and one of the teacher's own Timetable rows.  A record of the pair that
\* exists gives the form error, otherwise the record is saved and the view
\* redirects.
AddLessonTeacher ==
    /\ phase = "idle"
    /\ \E teacher \in TeacherIds, week \in WeekIds :
         \E tt \in {r \in timetable : r.teacher_id = teacher} :
            LET exists == \E l \in lessonRecords :
                              l.timetable = tt.id /\ l.week = week
            IN /\ lessonRecords' =
                     IF exists THEN lessonRecords
                     ELSE lessonRecords \cup
                             {[id |-> FreshRecordId(lessonRecords),
                               timetable |-> tt.id, week |-> week,
                               status |-> "Pending", payment_status |-> "Unpaid"]}
               /\ resp' = IF exists
                          THEN [status |-> 200, error_message |-> MsgAlreadyScheduled,
                                current |-> << >>]
                          ELSE [status |-> 302, error_message |-> NoError,
                                current |-> << >>]
               /\ req' = [builder |-> "lesson", action |-> "add", selected |-> {},
                          post |-> << >>, week |-> week, timetable |-> tt.id]
    /\ phase' = "lesson"
    /\ UNCHANGED <<timetable, jointSubject, jointSets, again, conc, aside, apart>>

\* The browser leaves the page add_lesson_teacher answered with.
LeaveLesson ==
    /\ phase = "lesson"
    /\ phase' = "idle"
    /\ req' = NoReq
    /\ resp' = NoResp
    /\ UNCHANGED <<timetable, jointSubject, jointSets, again, conc, aside,
                   lessonRecords, apart>>

\* Timetables left by accepted saves of the two builders: those of
\* NormalTables and StatsTables, and one with a normal lesson of class group 1
\* and a remedial lesson of class group 2.
LessonTables ==
    NormalTables \cup StatsTables \cup
    { ReplaceRows(ReplaceRows({}, FixedTimetableStructure, {1},
                              NormalCell(1, 1, 1)).rows,
                  FixedRemedialStructure, {2}, RemedialCell(2, 1, 1)).rows }

\* LessonRecords generated and added over a timetable that is in place.
InitLessons ==
    /\ timetable \in LessonTables
    /\ jointSubject = (1 :> TRUE)
    /\ jointSets = << JointSet("F2", {1, 2}, TRUE) >>
    /\ phase = "idle"
    /\ req = NoReq
    /\ resp = NoResp
    /\ again = FALSE
    /\ txn = NoTxn
    /\ seen = NoSeen
    /\ race = NoRace
    /\ lessonRecords = {}
    /\ stats = NoStats
    /\ normalSlots = {}
    /\ attendance = {}
    /\ books = NoBooks
    /\ borrowRecords = {}
    /\ loans = NoLoans
    /\ amountPaid = NoStudents
    /\ studentPayments = {}

NextLessons ==
    \/ GenerateRemedialWeekLessons
    \/ AddLessonTeacher
    \/ LeaveLesson
    \/ RemedialTeacherDetails

SpecLessons == InitLessons /\ [][NextLessons]_vars

\* ----------------------------------------------------------------- library
\* Book rows: book id -> status; BorrowRecord rows: [id, book, student,
\* status].  The quick_add_assign branch of student_loans, which makes a new
\* book for its loan, is left out.
BookIds    == 1..NumBooks
StudentIds == 1..NumStudents

\* The primary key the database gives the next BorrowRecord.
FreshBorrowId(records) ==
    CHOOSE n \in 1..(Cardinality(records) + 1) : \A r \in records : r.id # n

\* BorrowRecord.clean raises ValidationError.
CleanRaises(status, book_status) ==
    status = "borrowed" /\ book_status = "assigned"

\* The status BorrowRecord.save leaves the book with after the record is
\* written.
BookStatusAfterSave(status, book_status) ==
    IF status = "borrowed" THEN "assigned"
    ELSE IF status = "returned" THEN "available"
    ELSE book_status

\* record.save() of a record that is in the table, with its status set.
SaveWithStatus(rec, status) ==
    IF CleanRaises(status, books[rec.book])
    THEN UNCHANGED <<books, borrowRecords>>
    ELSE /\ borrowRecords' = (borrowRecords \ {rec}) \cup {[rec EXCEPT !.status = status]}
         /\ books' = [books EXCEPT ![rec.book] = BookStatusAfterSave(status, @)]

libraryFrame == <<timetable, jointSubject, jointSets, phase, req, resp, again, conc,
                  aside, lessonRecords, loans, amountPaid, studentPayments>>

\* manage_loans, action create_loan: LibraryLoanForm is valid when
\* BorrowRecord.clean accepts the book; the loan is saved as borrowed.
ManageLoansCreate ==
    /\ Cardinality(borrowRecords) < MaxBorrowRecords
    /\ \E book \in BookIds, student \in StudentIds :
         IF CleanRaises("borrowed", books[book])
         THEN UNCHANGED <<books, borrowRecords>>
         ELSE /\ borrowRecords' = borrowRecords \cup
                    {[id |-> FreshBorrowId(borrowRecords), book |-> book,
                      student |-> student, status |-> "borrowed"]}
              /\ books' = [books EXCEPT ![book] = BookStatusAfterSave("borrowed", @)]
    /\ UNCHANGED libraryFrame

\* manage_loans, actions mark_returned, mark_lost and mark_cleared with a
\* record_id; the record is looked up with the status the action expects.
ManageLoansMark ==
    /\ \E record_id \in 1..MaxBorrowRecords,
          action \in {"mark_returned", "mark_lost", "mark_cleared"} :
         LET expected == IF action = "mark_cleared" THEN "lost" ELSE "borrowed"
             found == {r \in borrowRecords : r.id = record_id /\ r.status = expected}
         IN IF found = {} THEN UNCHANGED <<books, borrowRecords>>
            ELSE LET record == CHOOSE r \in found : TRUE
                 IN IF action = "mark_returned" THEN SaveWithStatus(record, "returned")
                    ELSE IF action = "mark_lost" THEN SaveWithStatus(record, "lost")
                    ELSE /\ borrowRecords' = borrowRecords \ {record}
                         /\ books' = books
    /\ UNCHANGED libraryFrame

\* student_loans, actions mark_returned, mark_lost and mark_cleared with a
\* record_id; the record is looked up among those of the student of the page.
StudentLoansMark ==
    /\ \E student \in StudentIds, record_id \in 1..MaxBorrowRecords,
          action \in {"mark_returned", "mark_lost", "mark_cleared"} :
         LET found == {r \in borrowRecords : r.id = record_id /\ r.student = student}
         IN IF found = {} THEN UNCHANGED <<books, borrowRecords>>
            ELSE LET rec == CHOOSE r \in found : TRUE
                 IN IF action = "mark_returned" THEN SaveWithStatus(rec, "returned")
                    ELSE IF action = "mark_lost" THEN SaveWithStatus(rec, "lost")
                    ELSE IF rec.status = "lost"
                    THEN /\ books' = [books EXCEPT ![rec.book] = "available"]
                         /\ borrowRecords' = borrowRecords \ {rec}
                    ELSE UNCHANGED <<books, borrowRecords>>
    /\ UNCHANGED libraryFrame

RECURSIVE AssignFrom(_, _, _, _)
\* `for book in books: BorrowRecord.objects.create(...)` of student_loans
AssignFrom(bookSeq, student, bks, records) ==
    IF bookSeq = <<>> THEN [books |-> bks, records |-> records]
    ELSE LET book == Head(bookSeq)
         IN IF CleanRaises("borrowed", bks[book])
            THEN [books |-> bks, records |-> records]
            ELSE AssignFrom(Tail(bookSeq), student,
                    [bks EXCEPT ![book] = BookStatusAfterSave("borrowed", @)],
                    records \cup {[id |-> FreshBorrowId(records), book |-> book,
                                   student |-> student, status |-> "borrowed"]})

\* student_loans, action assign_books: StudentAssignBooksForm is valid when
\* every chosen book is available.
StudentLoansAssign ==
    /\ \E student \in StudentIds, chosen \in (SUBSET BookIds) \ {{}} :
         /\ Cardinality(borrowRecords) + Cardinality(chosen) <= MaxBorrowRecords
         /\ IF \E b \in chosen : books[b] # "available"
            THEN UNCHANGED <<books, borrowRecords>>
            ELSE LET res == AssignFrom(SortedSeq(chosen), student, books, borrowRecords)
                 IN /\ books' = res.books
                    /\ borrowRecords' = res.records
    /\ UNCHANGED libraryFrame

InitLibrary ==
    /\ timetable = {}
    /\ jointSubject = (1 :> TRUE)
    /\ jointSets = << JointSet("F2", {1, 2}, TRUE) >>
    /\ phase = "idle"
    /\ req = NoReq
    /\ resp = NoResp
    /\ again = FALSE
    /\ txn = NoTxn
    /\ seen = NoSeen
    /\ race = NoRace
    /\ lessonRecords = {}
    /\ stats = NoStats
    /\ normalSlots = {}
    /\ attendance = {}
    /\ books = [b \in BookIds |-> "available"]
    /\ borrowRecords = {}
    /\ loans = NoLoans
    /\ amountPaid = NoStudents
    /\ studentPayments = {}

NextLibrary ==
    \/ ManageLoansCreate
    \/ ManageLoansMark
    \/ StudentLoansMark
    \/ StudentLoansAssign

SpecLibrary == InitLibrary /\ [][NextLibrary]_vars

\* --------------------------------------------- loan creations side by side
\* Two requests that create a loan, each taken through its statements: the
\* form loads the book and validates, the record is inserted, the book is
\* updated.  Neither view opens a transaction or locks the book.
NoLoan == [pc |-> "none", view |-> "none", book |-> 0, student |-> 0,
           book_status |-> "none"]

loanFrame == <<timetable, jointSubject, jointSets, phase, req, resp, again, conc,
               aside, lessonRecords, amountPaid, studentPayments>>

\* The form is bound and validated: the Book is read, and the loan is
\* rejected when LibraryLoanForm finds BorrowRecord.clean raising, or when
\* the book is not among the available books StudentAssignBooksForm offers.
LoanValidate ==
    /\ \E w \in Writers, view \in {"manage_loans", "student_loans"},
          book \in BookIds, student \in StudentIds :
         /\ loans[w].pc = "none"
         /\ LET rejected == IF view = "manage_loans"
                            THEN CleanRaises("borrowed", books[book])
                            ELSE books[book] # "available"
            IN loans' = [loans EXCEPT ![w] =
                            [pc |-> IF rejected THEN "rejected" ELSE "valid",
                             view |-> view, book |-> book, student |-> student,
                             book_status |-> books[book]]]
    /\ UNCHANGED <<books, borrowRecords>>
    /\ UNCHANGED loanFrame

\* BorrowRecord.save up to super().save(): full_clean sees the status of the
\* Book instance the form loaded, and the record is inserted.
LoanInsert ==
    /\ \E w \in Writers :
         /\ loans[w].pc = "valid"
         /\ IF CleanRaises("borrowed", loans[w].book_status)
            THEN /\ loans' = [loans EXCEPT ![w].pc = "rejected"]
                 /\ borrowRecords' = borrowRecords
            ELSE /\ loans' = [loans EXCEPT ![w].pc = "inserted"]
                 /\ borrowRecords' = borrowRecords \cup
                       {[id |-> FreshBorrowId(borrowRecords), book |-> loans[w].book,
                         student |-> loans[w].student, status |-> "borrowed"]}
    /\ UNCHANGED books
    /\ UNCHANGED loanFrame

\* The rest of BorrowRecord.save: the book is set assigned and saved.
LoanUpdateBook ==
    /\ \E w \in Writers :
         /\ loans[w].pc = "inserted"
         /\ loans' = [loans EXCEPT ![w].pc = "done"]
         /\ books' = IF loans[w].book_status # "assigned"
                     THEN [books EXCEPT ![loans[w].book] = "assigned"]
                     ELSE books
    /\ UNCHANGED borrowRecords
    /\ UNCHANGED loanFrame

InitLoans ==
    /\ timetable = {}
    /\ jointSubject = (1 :> TRUE)
    /\ jointSets = << JointSet("F2", {1, 2}, TRUE) >>
    /\ phase = "idle"
    /\ req = NoReq
    /\ resp = NoResp
    /\ again = FALSE
    /\ txn = NoTxn
    /\ seen = NoSeen
    /\ race = NoRace
    /\ lessonRecords = {}
    /\ stats = NoStats
    /\ normalSlots = {}
    /\ attendance = {}
    /\ books = [b \in BookIds |-> "available"]
    /\ borrowRecords = {}
    /\ loans = [w \in Writers |-> NoLoan]
    /\ amountPaid = NoStudents
    /\ studentPayments = {}

NextLoans ==
    \/ LoanValidate
    \/ LoanInsert
    \/ LoanUpdateBook

SpecLoans == InitLoans /\ [][NextLoans]_vars

\* ------------------------------------------------------------ fee payments
\* Student rows: student id -> amount_paid; StudentPayment rows: [id,
\* student, amount].  Amounts are whole shillings.
TermFee == 1500

\* Student.balance
Balance(paid, student) == TermFee - paid[student]

\* What the amount_<id> field of the form can carry: nothing, a text that is
\* no number, zero, and two amounts.
AmountStrings == {<< >>, <<"x">>, IntStr(0), IntStr(500), IntStr(1000)}

\* The primary key the database gives the next StudentPayment.
FreshPaymentId(rows) ==
    CHOOSE n \in 1..(Cardinality(rows) + 1) : \A r \in rows : r.id # n

\* The students of the form for whom a payment is recorded: the field is
\* filled, Decimal() accepts it and the amount is above zero.
Recorded(post) ==
    {st \in DOMAIN post : /\ post[st] # << >>
                          /\ IsIntLiteral(post[st])
                          /\ PyInt(post[st]) > 0}

RECURSIVE RecordFrom(_, _, _, _)
\* `for student in students:` of student_payments
RecordFrom(studentSeq, post, paid, rows) ==
    IF studentSeq = <<>> THEN [paid |-> paid, rows |-> rows]
    ELSE LET student == Head(studentSeq)
             amount_str == post[student]
         IN IF student \in Recorded(post)
            THEN LET amount == PyInt(amount_str)
                 IN RecordFrom(Tail(studentSeq), post,
                       [paid EXCEPT ![student] = amount],
                       rows \cup {[id |-> FreshPaymentId(rows), student |-> student,
                                   amount |-> amount]})
            ELSE RecordFrom(Tail(studentSeq), post, paid, rows)

\* student_payments handles the POST of a class teacher: one amount field
\* per student of the class.
StudentPayments ==
    /\ \E post \in [StudentIds -> AmountStrings] :
         /\ Cardinality(studentPayments) + Cardinality(Recorded(post)) <= MaxPayments
         /\ LET res == RecordFrom(SortedSeq(StudentIds), post, amountPaid,
                                  studentPayments)
            IN /\ amountPaid' = res.paid
               /\ studentPayments' = res.rows
    /\ UNCHANGED <<timetable, jointSubject, jointSets, phase, req, resp, again, conc,
                   aside, lessonRecords, books, borrowRecords, loans>>

InitPayments ==
    /\ timetable = {}
    /\ jointSubject = (1 :> TRUE)
    /\ jointSets = << JointSet("F2", {1, 2}, TRUE) >>
    /\ phase = "idle"
    /\ req = NoReq
    /\ resp = NoResp
    /\ again = FALSE
    /\ txn = NoTxn
    /\ seen = NoSeen
    /\ race = NoRace
    /\ lessonRecords = {}
    /\ stats = NoStats
    /\ normalSlots = {}
    /\ attendance = {}
    /\ books = NoBooks
    /\ borrowRecords = {}
    /\ loans = NoLoans
    /\ amountPaid = [st \in StudentIds |-> 0]
    /\ studentPayments = {}

NextPayments == StudentPayments

SpecPayments == InitPayments /\ [][NextPayments]_vars

\* ================================================================== claims
\* A builder handled a POST in this step; it handled a save.
BuilderStep == phase' = "done"
SaveStep    == phase' = "done" /\ req'.action = "save"

\* The response shows an error message and the page; it shows no error.
Rejected(rsp) == rsp.status = 200 /\ rsp.error_message # NoError
Accepted(rsp) == rsp.status = 200 /\ rsp.error_message = NoError

\* The non-empty cells of a POST that decode, with what they decode to.
SubmittedPairs(r) ==
    {[cg |-> n[1], day |-> n[2], st |-> n[3], et |-> n[4], idx |-> n[5],
      subj |-> DecodeCell(Strip(r.post[n])).subj,
      teacher |-> DecodeCell(Strip(r.post[n])).teacher] :
        n \in {m \in DOMAIN r.post : DecodeCell(Strip(r.post[m])).ok}}

SameSlot(a, b) ==
    a.teacher = b.teacher /\ a.day = b.day /\ a.st = b.st /\ a.et = b.et

\* The POST holds a (teacher, day, start, end) with two different subjects.
TwoSubjectsInSlot(r) ==
    \E a, b \in SubmittedPairs(r) : SameSlot(a, b) /\ a.subj # b.subj

\* The class groups the POST gives the lesson of cell a.
ClassesOfLesson(r, a) ==
    {b.cg : b \in {c \in SubmittedPairs(r) : SameSlot(a, c) /\ a.subj = c.subj}}

\* The cells of the POST whose lesson is given to more than one class group.
SharedCells(r) ==
    {a \in SubmittedPairs(r) : Cardinality(ClassesOfLesson(r, a)) > 1}

ActiveJointSubject(subj) ==
    subj \in DOMAIN jointSubject /\ jointSubject[subj]

HasCommonActiveSet(cgs) ==
    \E i \in DOMAIN jointSets :
        jointSets[i].active /\ cgs \subseteq jointSets[i].class_groups

\* The (subject, teacher, day, start, end) entries attached to a class group.
EntriesOf(rows, cg) ==
    {<<r.subject_fk_id, r.teacher_id, r.day, r.start_time, r.end_time>> :
        r \in {x \in rows : cg \in x.class_groups}}

\* How many rows attach the entry e to the class group cg.
EntryCount(rows, cg, e) ==
    Cardinality({r \in rows :
        /\ cg \in r.class_groups
        /\ <<r.subject_fk_id, r.teacher_id, r.day, r.start_time, r.end_time>> = e})

\* C1: a save whose cells give one (teacher, day, start, end) two different
\* subjects, in whatever class groups and sub-indices, is rejected with an
\* error message and leaves the Timetable rows as they were.
C1_ConflictRejected ==
    [][(SaveStep /\ TwoSubjectsInSlot(req'))
         => (Rejected(resp') /\ timetable' = timetable)]_vars

\* C1 witness: a conflict across two class groups was rejected over a table
\* that holds rows.
C1_Witness ==
    /\ phase = "done" /\ req.action = "save"
    /\ \E a, b \in SubmittedPairs(req) :
           SameSlot(a, b) /\ a.subj # b.subj /\ a.cg # b.cg
    /\ resp.error_message = MsgConflict
    /\ timetable # {}

\* C2: no two Timetable rows share teacher, day, start and end with
\* different subjects.
C2_OneSubjectPerTeacherSlot ==
    \A a, b \in timetable :
        (/\ a.teacher_id = b.teacher_id /\ a.day = b.day
         /\ a.start_time = b.start_time /\ a.end_time = b.end_time)
            => a.subject_fk_id = b.subject_fk_id

\* C3: a save that gives one lesson to several class groups while its subject
\* has no active JointSubject record is rejected and changes no row.
C3_NonJointShareRejected ==
    [][(SaveStep /\ \E a \in SharedCells(req') : ~ActiveJointSubject(a.subj))
         => (Rejected(resp') /\ timetable' = timetable)]_vars

\* C3 witness: a shared lesson of a subject whose JointSubject record is
\* inactive was rejected over a table that holds rows.
C3_Witness ==
    /\ phase = "done" /\ req.action = "save"
    /\ \E a \in SharedCells(req) :
           a.subj \in DOMAIN jointSubject /\ ~jointSubject[a.subj]
    /\ resp.error_message = MsgNotJointSubj
    /\ timetable # {}

\* C4: an accepted save has, for each lesson it gives to several class
\* groups, one active JointClassGroupSet holding all of them; a save with a
\* shared lesson that has no such set is rejected and changes no row.
C4_SharedNeedsOneActiveSet ==
    [][SaveStep =>
         /\ Accepted(resp') =>
               \A a \in SharedCells(req') :
                   HasCommonActiveSet(ClassesOfLesson(req', a))
         /\ (\E a \in SharedCells(req') :
                 ~HasCommonActiveSet(ClassesOfLesson(req', a)))
               => (Rejected(resp') /\ timetable' = timetable)]_vars

\* C4 witness: a save with a shared lesson was accepted and its rows are in
\* the table.
C4_Witness ==
    /\ phase = "done" /\ req.action = "save" /\ Accepted(resp)
    /\ SharedCells(req) # {}
    /\ \A cg \in req.selected : EntriesOf(timetable, cg) # {}

\* Every non-empty cell of the POST decodes to ids of existing rows.
WellFormed(r) ==
    \A n \in DOMAIN r.post :
        \/ Strip(r.post[n]) = <<>>
        \/ /\ DecodeCell(Strip(r.post[n])).ok
           /\ DecodeCell(Strip(r.post[n])).subj \in SubjectIds
           /\ DecodeCell(Strip(r.post[n])).teacher \in TeacherIds

\* C5: a well-formed save without a two-subject slot, whose shared lessons
\* all have an active JointSubject and an active set holding their class
\* groups, is accepted.
C5_BackedSaveAccepted ==
    [][(/\ SaveStep
        /\ WellFormed(req')
        /\ ~TwoSubjectsInSlot(req')
        /\ \A a \in SharedCells(req') :
              /\ ActiveJointSubject(a.subj)
              /\ HasCommonActiveSet(ClassesOfLesson(req', a)))
         => Accepted(resp')]_vars

\* C6: a save whose row creation fails partway leaves the Timetable rows as
\* they were before the save.
C6_FailedSaveKeepsRows ==
    [][(SaveStep /\ resp'.status = 500) => timetable' = timetable]_vars

\* C8: a save or clear leaves the entries of every class group outside the
\* selection as they were.
C8_UnselectedUntouched ==
    [][BuilderStep =>
         \A cg \in ClassGroupIds \ req'.selected :
             EntriesOf(timetable', cg) = EntriesOf(timetable, cg)]_vars

\* C9: the accepted grid sent a second time is accepted again, and the rows
\* of its class groups are the same in count and content.
C9_ResaveIdempotent ==
    [][(phase = "done" /\ phase' = "done" /\ req.action = "save")
         => /\ req' = req
            /\ Accepted(resp')
            /\ \A cg \in req.selected :
                  /\ EntriesOf(timetable', cg) = EntriesOf(timetable, cg)
                  /\ \A e \in EntriesOf(timetable, cg) :
                        EntryCount(timetable', cg, e) = EntryCount(timetable, cg, e)]_vars

\* C9 witness: a joint lesson of two class groups was saved twice and the
\* table holds its two rows.
C9_Witness ==
    /\ phase = "done" /\ again /\ req.action = "save"
    /\ SharedCells(req) # {}
    /\ Cardinality(timetable) = 2
    /\ \A cg \in {1, 2} : Cardinality(EntriesOf(timetable, cg)) = 1

StructureOf(r) ==
    IF r.builder = "remedial" THEN FixedRemedialStructure ELSE FixedTimetableStructure

\* The non-empty cells of a POST: field name -> value.
SubmittedMap(r) ==
    [n \in {m \in DOMAIN r.post : Strip(r.post[m]) # <<>>} |-> Strip(r.post[n])]

\* The distinct pairs a POST holds in the sub-indices of one cell.
CellPairs(r, cg, day, st, et) ==
    {PairKey(a.subj, a.teacher) :
        a \in {b \in SubmittedPairs(r) :
                  b.cg = cg /\ b.day = day /\ b.st = st /\ b.et = et}}

\* C10 as stated: after an accepted save the rendered map is the submitted
\* map, key by key.
C10_RenderEqualsSubmitted ==
    (phase = "done" /\ req.action = "save" /\ Accepted(resp))
        => resp.current = SubmittedMap(req)

\* C10 amended: after an accepted save the rendered map holds, for every cell
\* of the selected class groups, the distinct pairs submitted in the cell at
\* the sub-indices 1..k (k their number), and no other key.
C10_RenderCompacted ==
    (phase = "done" /\ req.action = "save" /\ Accepted(resp))
        => LET names == FieldNameSet(StructureOf(req), req.selected)
           IN /\ DOMAIN resp.current \subseteq names
              /\ \A n \in names :
                    LET pairs == CellPairs(req, n[1], n[2], n[3], n[4])
                    IN /\ (n \in DOMAIN resp.current) <=> (n[5] <= Cardinality(pairs))
                       /\ (n \in DOMAIN resp.current) => (resp.current[n] \in pairs)
                       /\ \A m \in DOMAIN resp.current :
                             (/\ n \in DOMAIN resp.current
                              /\ m # n /\ m[1] = n[1] /\ m[2] = n[2]
                              /\ m[3] = n[3] /\ m[4] = n[4])
                                => resp.current[m] # resp.current[n]

\* C10 witness: a pair submitted at sub-index 2 of an otherwise empty cell
\* is rendered at sub-index 1 after the save.
C10_Witness ==
    /\ phase = "done" /\ req.action = "save" /\ Accepted(resp)
    /\ \E n \in DOMAIN req.post :
          /\ n[5] = 2
          /\ <<n[1], n[2], n[3], n[4], 1>> \notin DOMAIN req.post
          /\ <<n[1], n[2], n[3], n[4], 1>> \in DOMAIN resp.current
          /\ n \notin DOMAIN resp.current

\* C7: a reader that looks at the table while a save is under way sees the
\* whole grid as it was before the save or the whole grid as the save leaves
\* it, never a state in between (saves that end in an exception are left
\* aside).
C7_ReaderSeesOldOrNew ==
    (seen.read /\ phase = "saving")
        => LET done == ReplaceRows(txn.before, FixedTimetableStructure,
                                   req.selected, req.post)
           IN \/ done.raised
              \/ seen.grid = MasterGrid(txn.before)
              \/ seen.grid = MasterGrid(done.rows)

\* The rows that hold the lesson of cell a (teacher, subject, day, start, end).
RowsOfLesson(rows, a) ==
    {r \in rows : /\ r.subject_fk_id = a.subj /\ r.teacher_id = a.teacher
                  /\ r.day = a.day /\ r.start_time = a.st /\ r.end_time = a.et}

\* C11 as stated: after an accepted save, a lesson the form gives to several
\* selected class groups is one Timetable row attached to all of them.
C11_SharedLessonOneEntry ==
    (phase = "done" /\ req.action = "save" /\ Accepted(resp))
        => \A a \in SharedCells(req) :
              /\ Cardinality(RowsOfLesson(timetable, a)) = 1
              /\ \A r \in RowsOfLesson(timetable, a) :
                    ClassesOfLesson(req, a) \subseteq r.class_groups

\* C12: after an accepted save, every (class group, day, start, end, subject,
\* teacher) the form holds, in one sub-index or several, has exactly one row,
\* and no two rows of a selected class group agree on these six values.
C12_OneRowPerCombination ==
    (phase = "done" /\ req.action = "save" /\ Accepted(resp))
        => /\ \A a \in SubmittedPairs(req) :
                 Cardinality({r \in RowsOfLesson(timetable, a) :
                                 a.cg \in r.class_groups}) = 1
           /\ \A cg \in req.selected : \A e \in EntriesOf(timetable, cg) :
                 EntryCount(timetable, cg, e) = 1

\* C12 witness: an accepted form held one pair in two sub-indices of a cell,
\* and the table holds one row of it.
C12_Witness ==
    /\ phase = "done" /\ req.action = "save" /\ Accepted(resp)
    /\ \E a, b \in SubmittedPairs(req) :
          /\ a.idx # b.idx /\ a.cg = b.cg /\ a.day = b.day /\ a.st = b.st
          /\ a.et = b.et /\ a.subj = b.subj /\ a.teacher = b.teacher
          /\ Cardinality({r \in RowsOfLesson(timetable, a) :
                             a.cg \in r.class_groups}) = 1

\* The cells of a POST that are not empty and do not decode as
\* subject_id-teacher_id.
MalformedCells(r) ==
    {n \in DOMAIN r.post : /\ n[1] \in r.selected
                           /\ Strip(r.post[n]) # <<>>
                           /\ ~DecodeCell(Strip(r.post[n])).ok}

\* C13: a save with a non-empty cell of a selected class group that does not
\* decode is answered with the one message for an invalid selection and
\* changes no Timetable row, whatever its other cells hold.
C13_MalformedCellAborts ==
    [][(SaveStep /\ MalformedCells(req') # {})
         => (/\ resp'.status = 200
             /\ resp'.error_message = MsgInvalid
             /\ timetable' = timetable)]_vars

\* C13 witness: a form with a malformed cell and a cell that decodes was
\* answered with the message, over a table that holds rows.
C13_Witness ==
    /\ phase = "done" /\ req.action = "save"
    /\ MalformedCells(req) # {}
    /\ \E a \in SubmittedPairs(req), n \in MalformedCells(req) :
          FieldNames(StructureOf(req), req.selected)[1] = n /\ a.idx > n[5]
    /\ resp.error_message = MsgInvalid
    /\ timetable # {}

\* The (subject, teacher, day, start, end) entries a POST submits for a
\* class group.
SubmittedEntries(r, cg) ==
    {<<a.subj, a.teacher, a.day, a.st, a.et>> :
        a \in {b \in SubmittedPairs(r) : b.cg = cg}}

\* C14: when two saves whose selections share a class group ran at the same
\* time and both completed, the rows of each shared class group are the rows
\* of one of the two submissions, each once.
C14_LastWriterWins ==
    (race # NoRace /\ \A w \in Writers : race[w].pc = "done")
        => \A cg \in race[1].r.selected \cap race[2].r.selected :
              \E w \in Writers :
                 /\ EntriesOf(timetable, cg) = SubmittedEntries(race[w].r, cg)
                 /\ \A e \in EntriesOf(timetable, cg) : EntryCount(timetable, cg, e) = 1

\* The records remedial_stats read for the page it shows, by logical lesson.
RecordsOfKey(key) ==
    {l \in FilteredRecords(lessonRecords, stats.week) :
        LogicalKey(TimetableOf(timetable, l)) = key}

\* C15: the merged status of a logical lesson in remedial_stats is the
\* highest of its records under Attended > Not Attended > Pending and the
\* merged payment status the highest under Paid > Unpaid, whatever the order
\* the records are read in.
C15_MergeTakesHighest ==
    (phase = "stats")
        => /\ DOMAIN stats.logical_map =
                 {LogicalKey(TimetableOf(timetable, l)) :
                     l \in FilteredRecords(lessonRecords, stats.week)}
           /\ \A key \in DOMAIN stats.logical_map :
                 LET st == stats.logical_map[key].status
                     pay == stats.logical_map[key].payment_status
                     Rank(v) == IF v = "Attended" THEN 3
                                ELSE IF v = "Not Attended" THEN 2 ELSE 1
                     Pay(v) == IF v = "Paid" THEN 2 ELSE 1
                 IN /\ \E l \in RecordsOfKey(key) : l.status = st
                    /\ \A l \in RecordsOfKey(key) : Rank(l.status) <= Rank(st)
                    /\ \E l \in RecordsOfKey(key) : l.payment_status = pay
                    /\ \A l \in RecordsOfKey(key) : Pay(l.payment_status) <= Pay(pay)

\* C15 witness: the page shows a joint lesson as Attended and Paid whose two
\* records are one Pending and Paid, the other Attended and Unpaid.
C15_Witness ==
    /\ phase = "stats"
    /\ \E key \in DOMAIN stats.logical_map :
          /\ stats.logical_map[key] = [status |-> "Attended", payment_status |-> "Paid"]
          /\ \E a, b \in RecordsOfKey(key) :
                /\ a.id < b.id
                /\ a.status = "Pending" /\ a.payment_status = "Paid"
                /\ b.status = "Attended" /\ b.payment_status = "Unpaid"

\* The actions a builder knows.
KnownActions(builder) ==
    IF builder = "remedial" THEN {"save"} ELSE {"save", "clear"}

\* C16: a POST with selected class groups whose action is missing or not one
\* the builder knows (for the remedial builder also "clear") leaves every
\* Timetable row as it was and shows the message for an unknown action.
C16_UnknownActionIsNoOp ==
    [][(BuilderStep /\ req'.action \notin KnownActions(req'.builder))
         => (/\ timetable' = timetable
             /\ resp'.status = 200
             /\ resp'.error_message = MsgUnknownAction)]_vars

\* C16 witness: the remedial builder answered "clear" with the message while
\* the selected class groups have remedial rows.
C16_Witness ==
    /\ phase = "done" /\ req.builder = "remedial" /\ req.action = "clear"
    /\ resp.error_message = MsgUnknownAction
    /\ \E r \in timetable :
          /\ r.class_groups \cap req.selected # {}
          /\ r.end_time = FixedRemedialStructure.slots[1][2]

\* The entries of a class group in the cells of a structure: rows whose day
\* is a day of the structure and whose start and end are one of its slots.
StructureEntries(rows, S, cg) ==
    {<<r.subject_fk_id, r.teacher_id, r.day, r.start_time, r.end_time>> :
        r \in {x \in rows :
                  /\ cg \in x.class_groups
                  /\ x.day \in DaySet(S)
                  /\ \E i \in DOMAIN S.slots :
                        S.slots[i] = <<x.start_time, x.end_time>>}}

\* C17: an accepted save in the remedial builder leaves the normal-timetable
\* entries of the selected class groups as they were, and a save or clear in
\* the normal builder leaves their remedial entries as they were.
C17_BuildersDoNotInterfere ==
    [][/\ (SaveStep /\ req'.builder = "remedial" /\ Accepted(resp'))
            => \A cg \in req'.selected :
                  StructureEntries(timetable', FixedTimetableStructure, cg)
                     = StructureEntries(timetable, FixedTimetableStructure, cg)
       /\ (BuilderStep /\ req'.builder = "normal" /\ req'.action \in {"save", "clear"})
            => \A cg \in req'.selected :
                  StructureEntries(timetable', FixedRemedialStructure, cg)
                     = StructureEntries(timetable, FixedRemedialStructure, cg)]_vars

\* The lesson a LessonRecord is about: the class groups, subject, teacher, day,
\* start and end of its Timetable row.
LessonOfRecord(rows, l) ==
    LET tt == TimetableOf(rows, l)
    IN <<tt.class_groups, tt.subject_fk_id, tt.teacher_id, tt.day, tt.start_time,
         tt.end_time>>

\* The lessons of the grid: one per row.
GridLessons(rows) ==
    {<<tt.class_groups, tt.subject_fk_id, tt.teacher_id, tt.day, tt.start_time,
       tt.end_time>> : tt \in rows}

\* C18: an accepted save keeps, for every lesson that is in the grid before
\* and after it, the LessonRecords of the lesson with their week, status and
\* payment status.
C18_SaveKeepsLessonRecords ==
    [][(SaveStep /\ Accepted(resp'))
         => \A l \in lessonRecords :
               (LessonOfRecord(timetable, l) \in GridLessons(timetable'))
                  => \E k \in lessonRecords' :
                        /\ LessonOfRecord(timetable', k) = LessonOfRecord(timetable, l)
                        /\ k.week = l.week
                        /\ k.status = l.status
                        /\ k.payment_status = l.payment_status]_vars

\* The class groups that rows of the table attach to the lesson of row a.
ClassesOfRow(rows, a) ==
    UNION {b.class_groups :
             b \in {x \in rows : /\ x.subject_fk_id = a.subject_fk_id
                                  /\ x.teacher_id = a.teacher_id /\ x.day = a.day
                                  /\ x.start_time = a.start_time
                                  /\ x.end_time = a.end_time}}

\* C19: whenever entries with the same teacher, subject, day, start and end
\* are attached to more than one class group, the subject is an active
\* JointSubject and the class groups are all in one active JointClassGroupSet.
C19_SharedEntriesAreJoint ==
    \A a \in timetable :
        Cardinality(ClassesOfRow(timetable, a)) > 1
            => /\ ActiveJointSubject(a.subject_fk_id)
               /\ HasCommonActiveSet(ClassesOfRow(timetable, a))

\* The logical teaching blocks (teacher, day, start, end, subject) of the
\* normal timetable.
NormalBlocks(rows) ==
    {<<r.teacher_id, r.day, r.start_time, r.end_time, r.subject_fk_id>> :
        r \in {x \in rows :
                  /\ x.day \in DaySet(FixedTimetableStructure)
                  /\ \E i \in DOMAIN FixedTimetableStructure.slots :
                        FixedTimetableStructure.slots[i] = <<x.start_time, x.end_time>>}}

\* The attendance rows of a week that belong to a block.
AttendanceOfBlock(atts, week, b) ==
    {a \in atts : /\ a.date = week
                  /\ <<a.slot.teacher, a.slot.day, a.slot.start_time, a.slot.end_time,
                       a.slot.subject_fk>> = b}

\* C20: when generate_week_lessons has run for a week, every logical teaching
\* block of the normal timetable has exactly one NormalLessonAttendance of
\* that week.
C20_OneAttendancePerBlock ==
    (phase = "generated" /\ req.week \in WeekIds)
        => \A b \in NormalBlocks(timetable) :
              Cardinality(AttendanceOfBlock(attendance, req.week, b)) = 1

\* The attendance rows deputy_normal_stats read for the page it shows, by
\* logical lesson.
AttendanceOfKey(key) ==
    {a \in FilteredAttendance(attendance, stats.week, stats.teacher) :
        SlotKey(a.slot) = key}

\* C21: the status deputy_normal_stats counts for a logical lesson is the
\* highest of its attendance rows under Attended > Not Attended > Pending,
\* whatever the order the rows are read in.
C21_NormalStatsTakesHighest ==
    (phase = "normal_stats")
        => \A key \in DOMAIN stats.logical_map :
              LET st == stats.logical_map[key]
                  Rank(v) == IF v = "Attended" THEN 3
                             ELSE IF v = "Not Attended" THEN 2 ELSE 1
              IN /\ \E a \in AttendanceOfKey(key) : a.status = st
                 /\ \A a \in AttendanceOfKey(key) : Rank(a.status) <= Rank(st)

\* A Timetable row in a slot of the normal structure.
NormalEntry(r) ==
    /\ r.day \in DaySet(FixedTimetableStructure)
    /\ \E i \in DOMAIN FixedTimetableStructure.slots :
          FixedTimetableStructure.slots[i] = <<r.start_time, r.end_time>>

\* C22: a run of generate_remedial_week_lessons creates no LessonRecord for
\* a Timetable row of the normal timetable.
C22_GenerateOnlyRemedial ==
    [][(phase = "idle" /\ phase' = "idle")
          => \A l \in lessonRecords' :
                (\A k \in lessonRecords : k.id # l.id)
                    => ~NormalEntry(TimetableOf(timetable, l))]_vars

\* C23: there is at most one LessonRecord per (week, timetable) pair, and a
\* run of generate_remedial_week_lessons that follows a run for the same week
\* over the same timetable creates no record.
C23_OneRecordPerPair ==
    /\ \A a, b \in lessonRecords :
          (a.timetable = b.timetable /\ a.week = b.week) => a = b
    /\ \A week \in WeekIds :
          LET once == GenerateFrom(RowsById(timetable), 1, week, lessonRecords)
          IN GenerateFrom(RowsById(timetable), 1, week, once) = once

\* C23 witness: add_lesson_teacher answers with the form error for a lesson
\* of a week in which every row of a timetable of two rows has its record.
C23_Witness ==
    /\ phase = "lesson"
    /\ resp.error_message = MsgAlreadyScheduled
    /\ Cardinality(timetable) = 2
    /\ \A r \in timetable :
          Cardinality({l \in lessonRecords :
                          l.timetable = r.id /\ l.week = req.week}) = 1

\* Every lesson of the normal timetable has an attendance row of the week,
\* as a run of generate_week_lessons leaves it.
WeekCovered(week) ==
    \A r \in timetable :
        NormalEntry(r) =>
            \E a \in attendance :
                /\ a.date = week
                /\ a.slot.class_group \in r.class_groups
                /\ SlotKey(a.slot) = LogicalKey(r)

\* C24: a run of generate_week_lessons for a week the normal timetable has
\* its attendance of creates no NormalLessonSlot and no
\* NormalLessonAttendance, also when the grid was saved again unchanged since
\* the run before.
C24_GenerateWeekIdempotent ==
    [][(phase' = "generated" /\ req'.week \in WeekIds /\ WeekCovered(req'.week))
          => /\ normalSlots' = normalSlots
             /\ attendance' = attendance
             /\ req'.created_att = 0]_vars

\* C24 witness: a run for a week that created nothing, over a normal
\* timetable that holds a lesson and has its attendance of the week.
C24_Witness ==
    /\ phase = "generated"
    /\ req.week \in WeekIds
    /\ req.created_att = 0
    /\ \E r \in timetable : NormalEntry(r)
    /\ WeekCovered(req.week)

\* The borrowed records of a book.
BorrowedOf(records, book) ==
    {r \in records : r.book = book /\ r.status = "borrowed"}

\* C25: each book has at most one BorrowRecord with status borrowed, and a
\* book with a borrowed record has status assigned.
C25_OneBorrowerPerBook ==
    \A b \in BookIds :
        /\ Cardinality(BorrowedOf(borrowRecords, b)) <= 1
        /\ BorrowedOf(borrowRecords, b) # {} => books[b] = "assigned"

\* C26: when mark_cleared removes a BorrowRecord with status lost, through
\* manage_loans or through student_loans, the book of the record has status
\* available afterwards.
C26_ClearedFreesBook ==
    [][\A r \in borrowRecords :
          (r.status = "lost" /\ \A k \in borrowRecords' : k.id # r.id)
              => books'[r.book] = "available"]_vars

\* C27: when two loan creations for one book run side by side, the book has
\* at most one BorrowRecord with status borrowed.
C27_ConcurrentLoansExclusive ==
    \A b \in BookIds : Cardinality(BorrowedOf(borrowRecords, b)) <= 1

RECURSIVE SumAmounts(_)
SumAmounts(rows) ==
    IF rows = {} THEN 0
    ELSE LET r == CHOOSE x \in rows : TRUE
         IN r.amount + SumAmounts(rows \ {r})

\* C28: each student's amount_paid is the sum of the amounts of the
\* student's StudentPayment rows, and the balance the term fee less that sum.
C28_AmountPaidIsSum ==
    \A st \in StudentIds :
        LET total == SumAmounts({r \in studentPayments : r.student = st})
        IN /\ amountPaid[st] = total
           /\ Balance(amountPaid, st) = TermFee - total


====
